---- MODULE Spec2Model ----
(***************************************************************************)
(* UniFRA ingestion core: format detection, the four vendor binary codecs, *)
(* the CSV / XML / JSON text codecs, the canonical validator, the          *)
(* normalizer, and the authentication of the backend's endpoints.          *)
(*                                                                         *)
(* Files are byte sequences (Nat 0..255).  Text is a sequence of Unicode   *)
(* code points; str.encode('utf-8') / bytes.decode('utf-8') are modelled   *)
(* for code points below 0x800 (one- and two-byte forms).  Numbers are     *)
(* integer-valued; struct's 'f' and 'd' formats are modelled bit-exactly   *)
(* (IEEE-754 binary32 / binary64) for integers of magnitude below 2^31.    *)
(***************************************************************************)
EXTENDS Integers, Sequences, FiniteSets, TLC

VARIABLES fs, arg, out, db, now, pending

vars == <<fs, arg, out, db, now, pending>>

-----------------------------------------------------------------------------
(* Generic sequence helpers (Python slicing and searching).                *)

Min(a, b) == IF a < b THEN a ELSE b

Max(a, b) == IF a > b THEN a ELSE b

Abs(x) == IF x < 0 THEN -x ELSE x

Zeros(n) == [i \in 1..n |-> 0]

Rep(c, n) == [i \in 1..n |-> c]

\* s[:n]
Take(s, n) == SubSeq(s, 1, Min(n, Len(s)))

\* s[n:]
Drop(s, n) == SubSeq(s, Min(n, Len(s)) + 1, Len(s))

Reverse(s) == [i \in 1..Len(s) |-> s[Len(s) + 1 - i]]

\* s.startswith(p)
StartsWith(s, p) ==
    /\ Len(s) >= Len(p)
    /\ \A j \in 1..Len(p) : s[j] = p[j]

\* p in s
Contains(s, p) ==
    \E i \in 1..(Len(s) - Len(p) + 1) : \A j \in 1..Len(p) : s[i + j - 1] = p[j]

\* s.count(c) for a single character c
Count(s, c) == Cardinality({i \in 1..Len(s) : s[i] = c})

\* the concatenation of ss[lo..hi], halving the range
RECURSIVE ConcatRange(_, _, _)
ConcatRange(ss, lo, hi) ==
    IF lo > hi THEN <<>>
    ELSE IF lo = hi THEN ss[lo]
    ELSE LET mid == (lo + hi) \div 2
         IN  ConcatRange(ss, lo, mid) \o ConcatRange(ss, mid + 1, hi)

\* b''.join(ss)
Concat(ss) == ConcatRange(ss, 1, Len(ss))

\* the indices of s that satisfy P, ascending
Positions(s, P(_)) == Concat([i \in 1..Len(s) |-> IF P(i) THEN <<i>> ELSE <<>>])

\* str.rstrip('\x00')
RStripNul(s) ==
    LET keep == {i \in 1..Len(s) : s[i] # 0}
    IN  IF keep = {} THEN <<>>
        ELSE SubSeq(s, 1, CHOOSE i \in keep : \A k \in keep : k <= i)

-----------------------------------------------------------------------------
(* UTF-8.                                                                  *)

\* one code point -> its UTF-8 bytes (code points below 0x800)
Utf8Char(cp) ==
    IF cp < 128 THEN <<cp>>
    ELSE <<192 + (cp \div 64), 128 + (cp % 64)>>

\* str.encode('utf-8')
Utf8Encode(text) == Concat([i \in 1..Len(text) |-> Utf8Char(text[i])])

IsCont(c) == c >= 128 /\ c < 192

IsLead2(c) == c >= 194 /\ c < 224

\* bytes.decode('utf-8'): [ok, text]; ok = FALSE is UnicodeDecodeError.
\* Valid input has only ASCII bytes and two-byte forms: every lead byte is
\* followed by a continuation byte and every continuation byte follows a lead.
Utf8Decode(b) ==
    LET valid == \A i \in 1..Len(b) :
                    \/ b[i] < 128
                    \/ IsLead2(b[i]) /\ i < Len(b) /\ IsCont(b[i + 1])
                    \/ IsCont(b[i]) /\ i > 1 /\ IsLead2(b[i - 1])
    IN  IF ~valid THEN [ok |-> FALSE, text |-> <<>>]
        ELSE [ok |-> TRUE,
              text |-> Concat([i \in 1..Len(b) |->
                          IF b[i] < 128 THEN <<b[i]>>
                          ELSE IF IsLead2(b[i])
                               THEN <<(b[i] - 192) * 64 + (b[i + 1] - 128)>>
                          ELSE <<>>])]

-----------------------------------------------------------------------------
(* struct.pack / struct.unpack.                                            *)

Pow2(n) == 2 ^ n

RECURSIVE Log2(_)
Log2(a) == IF a < 2 THEN 0 ELSE 1 + Log2(a \div 2)

\* the w low bits of n, most significant first
Bits(n, w) == [i \in 1..w |-> (n \div Pow2(w - i)) % 2]

\* the number whose binary digits, most significant first, are bs[lo..hi]
RECURSIVE FromBitsRange(_, _, _)
FromBitsRange(bs, lo, hi) ==
    IF lo > hi THEN 0
    ELSE IF lo = hi THEN bs[lo]
    ELSE LET mid == (lo + hi) \div 2
         IN  FromBitsRange(bs, lo, mid) * Pow2(hi - mid) + FromBitsRange(bs, mid + 1, hi)

FromBits(bs) == FromBitsRange(bs, 1, Len(bs))

\* a bit string (most significant first) as big-endian bytes
BitsToBytes(bs) ==
    [k \in 1..(Len(bs) \div 8) |-> FromBits(SubSeq(bs, 8 * k - 7, 8 * k))]

BytesToBits(b) == Concat([k \in 1..Len(b) |-> Bits(b[k], 8)])

\* struct.pack('>I' / '>H' / 'B' / '>Q', n), n < 2^31
PackUBE(n, width) ==
    [k \in 1..width |-> IF width - k >= 4 THEN 0 ELSE (n \div Pow2(8 * (width - k))) % 256]

PackULE(n, width) == Reverse(PackUBE(n, width))

RECURSIVE UnpackUBE(_)
UnpackUBE(b) ==
    IF b = <<>> THEN 0 ELSE 256 * UnpackUBE(SubSeq(b, 1, Len(b) - 1)) + b[Len(b)]

UnpackULE(b) == UnpackUBE(Reverse(b))

\* IEEE-754 binary32 of an integer-valued x (round to nearest, ties to even)
F32Bits(x) ==
    IF x = 0 THEN Zeros(32)
    ELSE LET a    == Abs(x)
             e    == Log2(a)
             q0   == IF e <= 23 THEN a * Pow2(23 - e) ELSE a \div Pow2(e - 23)
             r    == IF e <= 23 THEN 0 ELSE a % Pow2(e - 23)
             half == IF e <= 23 THEN 1 ELSE Pow2(e - 24)
             up   == r > half \/ (r = half /\ q0 % 2 = 1)
             q1   == IF up THEN q0 + 1 ELSE q0
             e1   == IF q1 = Pow2(24) THEN e + 1 ELSE e
             m    == IF q1 = Pow2(24) THEN 0 ELSE q1 - Pow2(23)
         IN  <<IF x < 0 THEN 1 ELSE 0>> \o Bits(e1 + 127, 8) \o Bits(m, 23)

\* the integer part of the binary32 value with these bits
F32Value(bs) ==
    LET ex == FromBits(SubSeq(bs, 2, 9))
        m  == FromBits(SubSeq(bs, 10, 32))
        e  == ex - 127
        q  == Pow2(23) + m
        a  == IF ex = 0 \/ e < 0 THEN 0
              ELSE IF e >= 23 THEN q * Pow2(Min(e, 30) - 23)
              ELSE q \div Pow2(23 - e)
    IN  IF bs[1] = 1 THEN -a ELSE a

\* IEEE-754 binary64 of an integer-valued x, |x| < 2^31 (always exact)
F64Bits(x) ==
    IF x = 0 THEN Zeros(64)
    ELSE LET a == Abs(x)
             e == Log2(a)
         IN  <<IF x < 0 THEN 1 ELSE 0>> \o Bits(e + 1023, 11)
                 \o Bits(a - Pow2(e), e) \o Zeros(52 - e)

F64Value(bs) ==
    LET ex == FromBits(SubSeq(bs, 2, 12))
        e  == Min(ex - 1023, 30)
        a  == IF ex = 0 \/ e < 0 THEN 0
              ELSE Pow2(e) + FromBits(SubSeq(bs, 13, 12 + e))
    IN  IF bs[1] = 1 THEN -a ELSE a

\* struct.pack('<f' / '>f' / '<d' / '>d', x)
PackF32LE(x) == Reverse(BitsToBytes(F32Bits(x)))

PackF32BE(x) == BitsToBytes(F32Bits(x))

PackF64LE(x) == Reverse(BitsToBytes(F64Bits(x)))

PackF64BE(x) == BitsToBytes(F64Bits(x))

UnpackF32LE(b) == F32Value(BytesToBits(Reverse(b)))

UnpackF32BE(b) == F32Value(BytesToBits(b))

UnpackF64LE(b) == F64Value(BytesToBits(Reverse(b)))

UnpackF64BE(b) == F64Value(BytesToBits(b))

\* struct.pack('<Ns', data): data cut to N bytes and zero-padded to N
PackS(data, n) == Take(data, n) \o Zeros(n - Min(n, Len(data)))

-----------------------------------------------------------------------------
(* Text constants (ASCII codes).                                           *)

\* 'OMICRON_FRX_V2.1'
SigOmicron == <<79, 77, 73, 67, 82, 79, 78, 95, 70, 82, 88, 95, 86, 50, 46, 49>>

\* 'DOBLE_M4000_FMT1'
SigDoble == <<68, 79, 66, 76, 69, 95, 77, 52, 48, 48, 48, 95, 70, 77, 84, 49>>

\* 'MEGGER_FRAX_150'
SigMegger == <<77, 69, 71, 71, 69, 82, 95, 70, 82, 65, 88, 95, 49, 53, 48>>

\* 'N4TH_ANALYZER_V3'
SigNewtons4th == <<78, 52, 84, 72, 95, 65, 78, 65, 76, 89, 90, 69, 82, 95, 86, 51>>

\* 'OMICRON_FRX'
ShortSigOmicron == <<79, 77, 73, 67, 82, 79, 78, 95, 70, 82, 88>>

\* 'DOBLE_M4000'
ShortSigDoble == <<68, 79, 66, 76, 69, 95, 77, 52, 48, 48, 48>>

\* 'MEGGER_FRAX'
ShortSigMegger == <<77, 69, 71, 71, 69, 82, 95, 70, 82, 65, 88>>

\* 'N4TH_ANALYZER'
ShortSigNewtons4th == <<78, 52, 84, 72, 95, 65, 78, 65, 76, 89, 90, 69, 82>>

\* '.csv'
ExtCsv == <<46, 99, 115, 118>>

\* '.txt'
ExtTxt == <<46, 116, 120, 116>>

\* '.xml'
ExtXml == <<46, 120, 109, 108>>

\* '.json'
ExtJson == <<46, 106, 115, 111, 110>>

\* '.frx'
ExtFrx == <<46, 102, 114, 120>>

\* '.dbl'
ExtDbl == <<46, 100, 98, 108>>

\* '.meg'
ExtMeg == <<46, 109, 101, 103>>

\* '.n4f'
ExtN4f == <<46, 110, 52, 102>>

\* 'unknown'
Unknown == <<117, 110, 107, 110, 111, 119, 110>>

\* 'H1-H2'
DefaultConnection == <<72, 49, 45, 72, 50>>

\* 'Omicron FRAnalyzer'
InstrOmicron == <<79, 109, 105, 99, 114, 111, 110, 32, 70, 82, 65, 110, 97, 108, 121, 122, 101, 114>>

\* 'Doble M4000'
InstrDoble == <<68, 111, 98, 108, 101, 32, 77, 52, 48, 48, 48>>

\* 'Megger FRAX-'
InstrMeggerPrefix == <<77, 101, 103, 103, 101, 114, 32, 70, 82, 65, 88, 45>>

\* 'FRAX-'
ModelMeggerPrefix == <<70, 82, 65, 88, 45>>

\* 'Newtons4th Analyzer V3'
InstrNewtons4th == <<78, 101, 119, 116, 111, 110, 115, 52, 116, 104, 32, 65, 110, 97, 108, 121, 122, 101, 114, 32, 86, 51>>

\* 'asset_id'
KeyAssetId == <<97, 115, 115, 101, 116, 95, 105, 100>>

\* 'manufacturer'
KeyManufacturer == <<109, 97, 110, 117, 102, 97, 99, 116, 117, 114, 101, 114>>

\* 'model'
KeyModel == <<109, 111, 100, 101, 108>>

\* 'rating_MVA'
KeyRating == <<114, 97, 116, 105, 110, 103, 95, 77, 86, 65>>

-----------------------------------------------------------------------------
(* Decimal text and the JSON footer of the Newtons4th layout               *)
(* (json.dumps with its default separators and ensure_ascii, json.loads).  *)

RECURSIVE NatDigits(_)
NatDigits(n) == IF n < 10 THEN <<48 + n>> ELSE Append(NatDigits(n \div 10), 48 + (n % 10))

\* str(n) for an integer n
Digits(n) == IF n < 0 THEN <<45>> \o NatDigits(-n) ELSE NatDigits(n)

IsDigit(c) == c >= 48 /\ c <= 57

RECURSIVE NatOfDigits(_)
NatOfDigits(ds) ==
    IF ds = <<>> THEN 0
    ELSE 10 * NatOfDigits(SubSeq(ds, 1, Len(ds) - 1)) + (ds[Len(ds)] - 48)

HexDigit(d) == IF d < 10 THEN 48 + d ELSE 87 + d

HexValue(c) == IF c <= 57 THEN c - 48 ELSE c - 87

\* one code point inside a JSON string literal
JsonEscape(cp) ==
    IF cp = 34 \/ cp = 92 THEN <<92, cp>>
    ELSE IF cp >= 32 /\ cp < 127 THEN <<cp>>
    ELSE <<92, 117, HexDigit(cp \div 4096), HexDigit((cp \div 256) % 16),
           HexDigit((cp \div 16) % 16), HexDigit(cp % 16)>>

JsonString(text) ==
    <<34>> \o Concat([i \in 1..Len(text) |-> JsonEscape(text[i])]) \o <<34>>

\* json.dumps of a flat object given as a sequence of members, each
\* [k |-> key, s |-> text] or [k |-> key, n |-> integer]
JsonValue(m) == IF "n" \in DOMAIN m THEN Digits(m.n) ELSE JsonString(m.s)

JsonDumps(members) ==
    <<123>>
    \o Concat([i \in 1..Len(members) |->
                 (IF i > 1 THEN <<44, 32>> ELSE <<>>)
                 \o JsonString(members[i].k) \o <<58, 32>> \o JsonValue(members[i])])
    \o <<125>>

\* the number of backslashes immediately before b[j]
BackslashRun(b, j) ==
    LET stops == {k \in 1..(j - 1) : b[k] # 92}
    IN  IF stops = {} THEN j - 1
        ELSE j - 1 - (CHOOSE k \in stops : \A m \in stops : m <= k)

\* the index of the quote that closes the string literal whose text starts
\* at b[i] (the first quote preceded by an even number of backslashes), 0
\* when there is none
JsonClose(b, i) ==
    LET closes == {j \in i..Len(b) :
                      b[j] = 34 /\ BackslashRun(SubSeq(b, i, j), j - i + 1) % 2 = 0}
    IN  IF closes = {} THEN 0 ELSE CHOOSE j \in closes : \A m \in closes : j <= m

\* whether an escape sequence starts at body[k]
IsEsc(body, k) == body[k] = 92 /\ BackslashRun(body, k) % 2 = 0

\* the length of the escape sequence that starts at body[k]
EscSpan(body, k) == IF k < Len(body) /\ body[k + 1] = 117 THEN 6 ELSE 2

\* whether body[k] is inside an escape sequence that starts before it
EscCovered(body, k) == \E e \in 1..(k - 1) : IsEsc(body, e) /\ e + EscSpan(body, e) > k

\* the text of a string literal with the escapes json.dumps writes
JsonUnescape(body) ==
    Concat([k \in 1..Len(body) |->
              IF EscCovered(body, k) THEN <<>>
              ELSE IF ~IsEsc(body, k) THEN <<body[k]>>
              ELSE IF EscSpan(body, k) = 2 THEN <<body[k + 1]>>
              ELSE <<4096 * HexValue(body[k + 2]) + 256 * HexValue(body[k + 3])
                     + 16 * HexValue(body[k + 4]) + HexValue(body[k + 5])>>])

\* whether every escape sequence of the literal is one json.dumps writes
JsonEscapesOk(body) ==
    \A k \in 1..Len(body) :
        IsEsc(body, k) => /\ k + EscSpan(body, k) - 1 <= Len(body)
                          /\ body[k + 1] \in {34, 92, 117}

\* the string literal between b[i] and the closing quote b[close]
JsonStringAt(b, i, close) ==
    IF close = 0 \/ ~JsonEscapesOk(SubSeq(b, i, close - 1))
    THEN [ok |-> FALSE, text |-> <<>>, next |-> i]
    ELSE [ok |-> TRUE, text |-> JsonUnescape(SubSeq(b, i, close - 1)), next |-> close + 1]

\* the string literal whose opening quote is b[i - 1]: [ok, text, next],
\* next being the index after the closing quote
JsonStringFrom(b, i) == JsonStringAt(b, i, JsonClose(b, i))

RECURSIVE DigitRunEnd(_, _)
DigitRunEnd(b, j) == IF j <= Len(b) /\ IsDigit(b[j]) THEN DigitRunEnd(b, j + 1) ELSE j

JsonFail == [ok |-> FALSE, pairs |-> <<>>]

RECURSIVE JsonMembersFrom(_, _, _)

\* after a value that ends before b[nxt] and was well formed if good:
\* the object ends, or ', ' and the next member follow
JsonAfterValue(b, nxt, acc, good) ==
    IF ~good \/ nxt > Len(b) THEN JsonFail
    ELSE IF b[nxt] = 125 /\ nxt = Len(b) THEN [ok |-> TRUE, pairs |-> acc]
    ELSE IF b[nxt] = 44 /\ nxt + 1 <= Len(b) /\ b[nxt + 1] = 32
         THEN JsonMembersFrom(b, nxt + 2, acc)
    ELSE JsonFail

\* a string value sv for the key
JsonStringValue(b, acc, key, sv) ==
    JsonAfterValue(b, sv.next, Append(acc, [k |-> key, s |-> sv.text]), sv.ok)

\* an integer value for the key: sign and the digits b[d0..d1 - 1]
JsonNumberValue(b, acc, key, sign, d0, d1) ==
    JsonAfterValue(b, d1, Append(acc, [k |-> key, n |-> sign * NatOfDigits(SubSeq(b, d0, d1 - 1))]),
                   d1 > d0)

\* the value that starts at b[v]
JsonValueAt(b, v, acc, key) ==
    IF b[v] = 34 THEN JsonStringValue(b, acc, key, JsonStringFrom(b, v + 1))
    ELSE IF b[v] = 45 THEN JsonNumberValue(b, acc, key, -1, v + 1, DigitRunEnd(b, v + 1))
    ELSE JsonNumberValue(b, acc, key, 1, v, DigitRunEnd(b, v))

\* after the key k: ': ' and the value
JsonAfterKey(b, acc, k) ==
    IF ~k.ok \/ k.next + 2 > Len(b) \/ b[k.next] # 58 \/ b[k.next + 1] # 32 THEN JsonFail
    ELSE JsonValueAt(b, k.next + 2, acc, k.text)

\* the members of a flat JSON object from b[i] on: [ok, pairs]
JsonMembersFrom(b, i, acc) ==
    IF i > Len(b) \/ b[i] # 34 THEN JsonFail
    ELSE JsonAfterKey(b, acc, JsonStringFrom(b, i + 1))

\* json.loads of a flat object: [ok, pairs]; ok = FALSE is JSONDecodeError
JsonLoads(b) ==
    IF Len(b) < 2 \/ b[1] # 123 THEN [ok |-> FALSE, pairs |-> <<>>]
    ELSE IF b = <<123, 125>> THEN [ok |-> TRUE, pairs |-> <<>>]
    ELSE JsonMembersFrom(b, 2, <<>>)

\* dict.get(key, default) on the members of a parsed object (the last
\* member with the key wins); the value is the member's text or integer
JsonGet(pairs, key, default) ==
    LET hits == {i \in 1..Len(pairs) : pairs[i].k = key}
        m    == pairs[CHOOSE i \in hits : \A k \in hits : k <= i]
    IN  IF hits = {} THEN default
        ELSE IF "n" \in DOMAIN m THEN m.n ELSE m.s

-----------------------------------------------------------------------------
(* Call results.                                                           *)

Ok(rec) == [status |-> "ok", rec |-> rec]

Raise(err, msg) == [status |-> "error", err |-> err, msg |-> msg]

\* what an encoder leaves behind: the bytes in the file when the handle is
\* closed, and the exception that left the with-block ("" for none)
Written(bytes, raised) == [bytes |-> bytes, raised |-> raised]

\* f.read(n) with the cursor at pos
Rd(b, pos, n) == SubSeq(b, pos + 1, Min(pos + n, Len(b)))

\* datetime.now() as seconds since the epoch (the clock is not modelled)
NowTs == 1700000000

\* datetime.isoformat() / strftime: calendar rendering abstracted to '@' + seconds
IsoFormat(ts) == <<64>> \o Digits(ts)

\* dict.get(key, default) on a record
Get(d, key, default) == IF key \in DOMAIN d THEN d[key] ELSE default

\* canonical_data['measurement'].get('phases', [0] * len(frequencies))
PhasesOrZeros(m) == Get(m, "phases", Zeros(Len(m.frequencies)))

\* the header reads of a decoder, in order: each step ends at byte `end`;
\* a step that unpacks needs all its bytes (struct.error), a step that
\* decodes text needs valid UTF-8 (UnicodeDecodeError).  "" when all pass.
RECURSIVE HeaderError(_, _, _)
HeaderError(b, steps, i) ==
    IF i > Len(steps) THEN ""
    ELSE LET st == steps[i]
         IN  IF st.unpack /\ Len(b) < st.end THEN "struct.error"
             ELSE IF st.text /\ ~Utf8Decode(Rd(b, st.start, st.end - st.start)).ok
                  THEN "UnicodeDecodeError"
             ELSE HeaderError(b, steps, i + 1)

Step(start, end, unpack, text) ==
    [start |-> start, end |-> end, unpack |-> unpack, text |-> text]

\* struct.unpack('<Ns', f.read(N))[0].decode('utf-8').rstrip('\x00')
SlotText(b, pos, n) == RStripNul(Utf8Decode(Rd(b, pos, n)).text)

-----------------------------------------------------------------------------
(* ProprietaryFormatEmulator.                                              *)

vendor_signatures ==
    [omicron |-> SigOmicron, doble |-> SigDoble,
     megger |-> SigMegger, newtons4th |-> SigNewtons4th]

\* insertion order of the vendor_signatures / format_extensions dicts
Vendors == <<"omicron", "doble", "megger", "newtons4th">>

format_extensions ==
    [omicron |-> ExtFrx, doble |-> ExtDbl, megger |-> ExtMeg, newtons4th |-> ExtN4f]

\* the signature check of a decoder that is not made: the signature is
\* looked for anywhere in the header, as read_file does
SignatureAnywhere(header, vendor) == Contains(header, vendor_signatures[vendor])

\* header.startswith(self.vendor_signatures[vendor])
HasSignature(header, vendor) == StartsWith(header, vendor_signatures[vendor])

OmicronHeaderLen == 244

OmicronPointLen == 16

\* the bytes write_omicron_frx has written when it reaches the data section
OmicronHeader(cd) ==
    LET am == cd.asset_metadata
        ti == cd.test_info
        m  == cd.measurement
    IN  PackS(SigOmicron, 64)
        \o PackULE(131073, 4)
        \o PackS(Take(Utf8Encode(am.asset_id), 32), 32)
        \o PackS(Take(Utf8Encode(am.manufacturer), 32), 32)
        \o PackS(Take(Utf8Encode(am.model), 32), 32)
        \o PackF32LE(am.rating_MVA)
        \o PackS(Take(Utf8Encode(ti.test_id), 32), 32)
        \o PackF32LE(ti.test_voltage)
        \o PackF32LE(Get(ti, "ambient_temp", 25))
        \o PackULE(Len(m.frequencies), 4)

OmicronPoints(cd) ==
    LET m  == cd.measurement
        ph == PhasesOrZeros(m)
    IN  Concat([i \in 1..Len(m.frequencies) |->
                  PackF64LE(m.frequencies[i]) \o PackF32LE(m.magnitudes[i])
                  \o PackF32LE(ph[i])])

\* whether a handle opened with this mode supports f.read()
Readable(mode) == mode \in {"rb", "r", "r+b", "w+b"}

\* write_omicron_frx: the file is opened 'wb'; after the data section the
\* code seeks to 0 and calls f.read() to checksum the file, which a
\* write-only handle refuses (io.UnsupportedOperation), so the call raises
\* and no checksum is appended.  An empty frequency list raises IndexError
\* at frequencies[0].
write_omicron_frx(cd) ==
    LET m == cd.measurement
    IN  IF Len(m.frequencies) = 0
        THEN Written(OmicronHeader(cd), "IndexError")
        ELSE LET body == OmicronHeader(cd)
                         \o PackF64LE(m.frequencies[1])
                         \o PackF64LE(m.frequencies[Len(m.frequencies)])
                         \o PackS(Take(Utf8Encode(Get(m, "connection", DefaultConnection)), 16), 16)
                         \o OmicronPoints(cd)
             IN  IF ~Readable("wb")
                 THEN Written(body, "io.UnsupportedOperation")
                 ELSE Written(body, "AttributeError")

OmicronSteps ==
    <<Step(64, 68, TRUE, FALSE), Step(68, 100, TRUE, TRUE), Step(100, 132, TRUE, TRUE),
      Step(132, 164, TRUE, TRUE), Step(164, 168, TRUE, FALSE), Step(168, 200, TRUE, TRUE),
      Step(200, 204, TRUE, FALSE), Step(204, 208, TRUE, FALSE), Step(208, 212, TRUE, FALSE),
      Step(212, 220, TRUE, FALSE), Step(220, 228, TRUE, FALSE), Step(228, 244, TRUE, TRUE)>>

RawFile(name, b, vendor) ==
    [filename |-> name, vendor_name |-> vendor, original_format |-> "binary",
     file_size |-> Len(b), parser_version |-> "1.0"]

read_omicron_frx(name, b) ==
    IF ~HasSignature(Rd(b, 0, 64), "omicron")
    THEN Raise("ValueError", "Invalid Omicron FRX file signature")
    ELSE LET herr == HeaderError(b, OmicronSteps, 1)
             num_points == UnpackULE(Rd(b, 208, 4))
             at(i) == OmicronHeaderLen + OmicronPointLen * (i - 1)
         IN  IF herr # "" THEN Raise(herr, "")
             ELSE IF Len(b) < OmicronHeaderLen + OmicronPointLen * num_points
                  THEN Raise("struct.error", "")
             ELSE Ok([asset_metadata |->
                        [asset_id |-> SlotText(b, 68, 32),
                         manufacturer |-> SlotText(b, 100, 32),
                         model |-> SlotText(b, 132, 32),
                         rating_MVA |-> UnpackF32LE(Rd(b, 164, 4)),
                         winding_config |-> Unknown, serial |-> Unknown,
                         year_installed |-> 2020, voltage_levels |-> <<132, 33>>],
                      test_info |->
                        [test_id |-> SlotText(b, 168, 32),
                         date |-> IsoFormat(NowTs),
                         technician |-> Unknown,
                         instrument |-> InstrOmicron,
                         test_voltage |-> UnpackF32LE(Rd(b, 200, 4)),
                         coupling |-> "capacitive",
                         ambient_temp |-> UnpackF32LE(Rd(b, 204, 4))],
                      measurement |->
                        [frequencies |-> [i \in 1..num_points |-> UnpackF64LE(Rd(b, at(i), 8))],
                         magnitudes |-> [i \in 1..num_points |-> UnpackF32LE(Rd(b, at(i) + 8, 4))],
                         phases |-> [i \in 1..num_points |-> UnpackF32LE(Rd(b, at(i) + 12, 4))],
                         unit |-> "dB",
                         connection |-> SlotText(b, 228, 16),
                         resolution |-> num_points,
                         freq_start |-> UnpackF64LE(Rd(b, 212, 8)),
                         freq_end |-> UnpackF64LE(Rd(b, 220, 8))],
                      raw_file |-> RawFile(name, b, "omicron")])

DobleHeaderLen == 130

DoblePointLen == 24

\* write_doble_dbl
write_doble_dbl(cd) ==
    LET m  == cd.measurement
        ph == PhasesOrZeros(m)
        asset_id_bytes == Take(Utf8Encode(cd.asset_metadata.asset_id), 32)
        asset_block == asset_id_bytes \o Zeros(64 - Len(asset_id_bytes))
    IN  Written(PackS(SigDoble, 32)
                \o PackUBE(1145195521, 4)
                \o PackUBE(2024, 2) \o PackUBE(1, 2) \o PackUBE(15, 2)
                \o asset_block
                \o PackF32BE(cd.test_info.test_voltage)
                \o PackUBE(Len(m.frequencies), 4)
                \o PackF64BE(m.freq_start)
                \o PackF64BE(m.freq_end)
                \o Concat([i \in 1..Len(m.frequencies) |->
                             PackF64BE(m.frequencies[i]) \o PackF64BE(m.magnitudes[i])
                             \o PackF64BE(ph[i])]),
                "")

\* f"{year}-{month:02d}-{day:02d}T12:00:00Z"
DobleDate(year, month, day) ==
    LET two(n) == IF n < 10 THEN <<48>> \o Digits(n) ELSE Digits(n)
    IN  Digits(year) \o <<45>> \o two(month) \o <<45>> \o two(day)
        \o <<84, 49, 50, 58, 48, 48, 58, 48, 48, 90>>

\* 'doble_' / 'megger_' / 'n4th_' + strftime('%Y%m%d_%H%M%S')
StampedId(prefix) == prefix \o IsoFormat(NowTs)

DobleSteps ==
    <<Step(32, 36, TRUE, FALSE), Step(36, 38, TRUE, FALSE), Step(38, 40, TRUE, FALSE),
      Step(40, 42, TRUE, FALSE), Step(42, 106, FALSE, TRUE), Step(106, 110, TRUE, FALSE),
      Step(110, 114, TRUE, FALSE), Step(114, 122, TRUE, FALSE), Step(122, 130, TRUE, FALSE)>>

read_doble_dbl(name, b) ==
    IF ~HasSignature(Rd(b, 0, 32), "doble")
    THEN Raise("ValueError", "Invalid Doble DBL file signature")
    ELSE LET herr == HeaderError(b, DobleSteps, 1)
             num_points == UnpackUBE(Rd(b, 110, 4))
             at(i) == DobleHeaderLen + DoblePointLen * (i - 1)
         IN  IF herr # "" THEN Raise(herr, "")
             ELSE IF Len(b) < DobleHeaderLen + DoblePointLen * num_points
                  THEN Raise("struct.error", "")
             ELSE Ok([asset_metadata |->
                        [asset_id |-> SlotText(b, 42, 64),
                         manufacturer |-> Unknown, model |-> Unknown,
                         rating_MVA |-> 100,
                         winding_config |-> Unknown, serial |-> Unknown,
                         year_installed |-> 2020, voltage_levels |-> <<132, 33>>],
                      test_info |->
                        [test_id |-> StampedId(<<100, 111, 98, 108, 101, 95>>),
                         date |-> DobleDate(UnpackUBE(Rd(b, 36, 2)), UnpackUBE(Rd(b, 38, 2)),
                                            UnpackUBE(Rd(b, 40, 2))),
                         technician |-> Unknown,
                         instrument |-> InstrDoble,
                         test_voltage |-> UnpackF32BE(Rd(b, 106, 4)),
                         coupling |-> "capacitive",
                         ambient_temp |-> 25],
                      measurement |->
                        [frequencies |-> [i \in 1..num_points |-> UnpackF64BE(Rd(b, at(i), 8))],
                         magnitudes |-> [i \in 1..num_points |-> UnpackF64BE(Rd(b, at(i) + 8, 8))],
                         phases |-> [i \in 1..num_points |-> UnpackF64BE(Rd(b, at(i) + 16, 8))],
                         unit |-> "dB",
                         connection |-> DefaultConnection,
                         resolution |-> num_points,
                         freq_start |-> UnpackF64BE(Rd(b, 114, 8)),
                         freq_end |-> UnpackF64BE(Rd(b, 122, 8))],
                      raw_file |-> RawFile(name, b, "doble")])

\* _write_pascal_string(f, text, max_len)
write_pascal_string(text, max_len) ==
    LET text_bytes == Take(Utf8Encode(text), max_len - 1)
    IN  PackULE(Len(text_bytes), 1) \o text_bytes \o Zeros(max_len - 1 - Len(text_bytes))

\* _read_pascal_string(f, max_len) with the cursor at pos: [err, text, next].
\* A length byte above max_len - 1 makes the padding read f.read(negative),
\* which consumes the rest of the file.
read_pascal_string(b, pos, max_len) ==
    IF Len(b) < pos + 1 THEN [err |-> "struct.error", text |-> <<>>, next |-> pos]
    ELSE LET length == UnpackULE(Rd(b, pos, 1))
             d == Utf8Decode(Rd(b, pos + 1, length))
         IN  [err  |-> IF d.ok THEN "" ELSE "UnicodeDecodeError",
              text |-> d.text,
              next |-> IF length <= max_len - 1 THEN Min(pos + max_len, Len(b))
                       ELSE Len(b)]

MeggerPointLen == 16

\* write_megger_meg
write_megger_meg(cd) ==
    LET m  == cd.measurement
        ph == PhasesOrZeros(m)
    IN  Written(PackS(SigMegger, 48)
                \o PackULE(1296385874, 4)
                \o PackULE(150, 2) \o PackULE(1, 2)
                \o write_pascal_string(cd.asset_metadata.asset_id, 32)
                \o write_pascal_string(cd.asset_metadata.manufacturer, 32)
                \o PackF32LE(cd.test_info.test_voltage)
                \o PackF32LE(Get(cd.test_info, "ambient_temp", 25))
                \o PackULE(Len(m.frequencies), 4)
                \o PackULE(0, 4)
                \o Concat([i \in 1..Len(m.frequencies) |->
                             PackF32LE(m.frequencies[i]) \o PackF32LE(m.magnitudes[i])
                             \o PackF32LE(ph[i]) \o PackULE(i - 1, 4)]),
                "")

read_megger_meg(name, b) ==
    IF ~HasSignature(Rd(b, 0, 48), "megger")
    THEN Raise("ValueError", "Invalid Megger MEG file signature")
    ELSE IF Len(b) < 56 THEN Raise("struct.error", "")
    ELSE LET model == UnpackULE(Rd(b, 52, 2))
             asset_id == read_pascal_string(b, 56, 32)
             manufacturer == read_pascal_string(b, asset_id.next, 32)
             p0 == manufacturer.next
             num_points == UnpackULE(Rd(b, p0 + 8, 4))
             at(i) == p0 + 16 + MeggerPointLen * (i - 1)
             frequencies == [i \in 1..num_points |-> UnpackF32LE(Rd(b, at(i), 4))]
         IN  IF asset_id.err # "" THEN Raise(asset_id.err, "")
             ELSE IF manufacturer.err # "" THEN Raise(manufacturer.err, "")
             ELSE IF Len(b) < p0 + 16 + MeggerPointLen * num_points
                  THEN Raise("struct.error", "")
             ELSE Ok([asset_metadata |->
                        [asset_id |-> asset_id.text,
                         manufacturer |-> manufacturer.text,
                         model |-> ModelMeggerPrefix \o Digits(model),
                         rating_MVA |-> 100,
                         winding_config |-> Unknown, serial |-> Unknown,
                         year_installed |-> 2020, voltage_levels |-> <<132, 33>>],
                      test_info |->
                        [test_id |-> StampedId(<<109, 101, 103, 103, 101, 114, 95>>),
                         date |-> IsoFormat(NowTs),
                         technician |-> Unknown,
                         instrument |-> InstrMeggerPrefix \o Digits(model),
                         test_voltage |-> UnpackF32LE(Rd(b, p0, 4)),
                         coupling |-> "capacitive",
                         ambient_temp |-> UnpackF32LE(Rd(b, p0 + 4, 4))],
                      measurement |->
                        [frequencies |-> frequencies,
                         magnitudes |-> [i \in 1..num_points |-> UnpackF32LE(Rd(b, at(i) + 4, 4))],
                         phases |-> [i \in 1..num_points |-> UnpackF32LE(Rd(b, at(i) + 8, 4))],
                         unit |-> "dB",
                         connection |-> DefaultConnection,
                         resolution |-> num_points,
                         freq_start |-> IF num_points > 0 THEN frequencies[1] ELSE 0,
                         freq_end |-> IF num_points > 0 THEN frequencies[num_points] ELSE 0],
                      raw_file |-> RawFile(name, b, "megger")])

N4fHeaderLen == 80

N4fPointLen == 24

\* the bytes write_newtons4th_n4f writes before the measurement header
N4fPrefix == PackS(SigNewtons4th, 32) \o PackUBE(1312052294, 4)
             \o PackUBE(3, 2) \o PackUBE(0, 2) \o PackUBE(NowTs, 8)

\* write_newtons4th_n4f; an empty frequency list raises IndexError at
\* frequencies[0], after the point count has been written
write_newtons4th_n4f(cd) ==
    LET m  == cd.measurement
        am == cd.asset_metadata
        ph == PhasesOrZeros(m)
        n  == Len(m.frequencies)
        asset_json == JsonDumps(<<[k |-> KeyAssetId, s |-> am.asset_id],
                                  [k |-> KeyManufacturer, s |-> am.manufacturer],
                                  [k |-> KeyModel, s |-> am.model],
                                  [k |-> KeyRating, n |-> am.rating_MVA]>>)
    IN  IF n = 0 THEN Written(N4fPrefix \o PackUBE(0, 4), "IndexError")
        ELSE Written(N4fPrefix
                     \o PackUBE(n, 4)
                     \o PackF64BE(m.frequencies[1])
                     \o PackF64BE(m.frequencies[n])
                     \o PackF32BE(cd.test_info.test_voltage)
                     \o PackS(Take(Utf8Encode(Get(m, "connection", DefaultConnection)), 8), 8)
                     \o Concat([i \in 1..n |->
                                  PackF64BE(m.frequencies[i]) \o PackF64BE(m.magnitudes[i])
                                  \o PackF64BE(ph[i])])
                     \o PackUBE(Len(asset_json), 4)
                     \o asset_json,
                     "")

N4fSteps ==
    <<Step(32, 36, TRUE, FALSE), Step(36, 38, TRUE, FALSE), Step(38, 40, TRUE, FALSE),
      Step(40, 48, TRUE, FALSE), Step(48, 52, TRUE, FALSE), Step(52, 60, TRUE, FALSE),
      Step(60, 68, TRUE, FALSE), Step(68, 72, TRUE, FALSE), Step(72, 80, TRUE, TRUE)>>

\* the record read_newtons4th_n4f returns: num_points points, and the
\* asset metadata the footer holds
N4fRecord(name, b, num_points, metadata) ==
    [asset_metadata |->
       [asset_id |-> JsonGet(metadata, KeyAssetId, Unknown),
        manufacturer |-> JsonGet(metadata, KeyManufacturer, Unknown),
        model |-> JsonGet(metadata, KeyModel, Unknown),
        rating_MVA |-> JsonGet(metadata, KeyRating, 100),
        winding_config |-> Unknown, serial |-> Unknown,
        year_installed |-> 2020, voltage_levels |-> <<132, 33>>],
     test_info |->
       [test_id |-> StampedId(<<110, 52, 116, 104, 95>>),
        date |-> IsoFormat(UnpackUBE(Rd(b, 40, 8))),
        technician |-> Unknown,
        instrument |-> InstrNewtons4th,
        test_voltage |-> UnpackF32BE(Rd(b, 68, 4)),
        coupling |-> "capacitive",
        ambient_temp |-> 25],
     measurement |->
       [frequencies |-> [i \in 1..num_points |->
                           UnpackF64BE(Rd(b, N4fHeaderLen + N4fPointLen * (i - 1), 8))],
        magnitudes |-> [i \in 1..num_points |->
                          UnpackF64BE(Rd(b, N4fHeaderLen + N4fPointLen * (i - 1) + 8, 8))],
        phases |-> [i \in 1..num_points |->
                      UnpackF64BE(Rd(b, N4fHeaderLen + N4fPointLen * (i - 1) + 16, 8))],
        unit |-> "dB",
        connection |-> SlotText(b, 72, 8),
        resolution |-> num_points,
        freq_start |-> UnpackF64BE(Rd(b, 52, 8)),
        freq_end |-> UnpackF64BE(Rd(b, 60, 8))],
     raw_file |-> RawFile(name, b, "newtons4th")]

\* the footer: the metadata text (a UTF-8 decode result) and its parse
N4fFooter(name, b, num_points, text, metadata) ==
    IF ~text.ok THEN Raise("UnicodeDecodeError", "")
    ELSE IF ~metadata.ok THEN Raise("JSONDecodeError", "")
    ELSE Ok(N4fRecord(name, b, num_points, metadata.pairs))

\* the points, then the footer that starts at byte foot
N4fBody(name, b, num_points, foot, herr) ==
    IF herr # "" THEN Raise(herr, "")
    ELSE IF Len(b) < foot + 4 THEN Raise("struct.error", "")
    ELSE N4fFooter(name, b, num_points,
                   Utf8Decode(Rd(b, foot + 4, UnpackUBE(Rd(b, foot, 4)))),
                   JsonLoads(Utf8Decode(Rd(b, foot + 4, UnpackUBE(Rd(b, foot, 4)))).text))

read_newtons4th_n4f(name, b) ==
    IF ~HasSignature(Rd(b, 0, 32), "newtons4th")
    THEN Raise("ValueError", "Invalid Newtons4th N4F file signature")
    ELSE N4fBody(name, b, UnpackUBE(Rd(b, 48, 4)),
                 N4fHeaderLen + N4fPointLen * UnpackUBE(Rd(b, 48, 4)),
                 HeaderError(b, N4fSteps, 1))

\* write_file(canonical_data, vendor, output_path)
write_file(cd, vendor) ==
    IF vendor = "omicron" THEN write_omicron_frx(cd)
    ELSE IF vendor = "doble" THEN write_doble_dbl(cd)
    ELSE IF vendor = "megger" THEN write_megger_meg(cd)
    ELSE IF vendor = "newtons4th" THEN write_newtons4th_n4f(cd)
    ELSE Raise("ValueError", "Unsupported vendor format")

-----------------------------------------------------------------------------
(* Text (str) operations.                                                  *)

\* str.isspace() for code points below 0x800
IsSpace(c) == c \in {9, 10, 11, 12, 13, 28, 29, 30, 31, 32, 133, 160}

\* str.strip()
Strip(s) ==
    LET keep == {i \in 1..Len(s) : ~IsSpace(s[i])}
    IN  IF keep = {} THEN <<>>
        ELSE SubSeq(s, CHOOSE i \in keep : \A k \in keep : i <= k,
                       CHOOSE i \in keep : \A k \in keep : k <= i)

\* str.lower() on ASCII letters
Lower(s) == [i \in 1..Len(s) |-> IF s[i] >= 65 /\ s[i] <= 90 THEN s[i] + 32 ELSE s[i]]

\* str.replace(old, new) for a one-character old and new
ReplaceChar(s, old, new) == [i \in 1..Len(s) |-> IF s[i] = old THEN new ELSE s[i]]

\* str.replace(old, '') : the leftmost non-overlapping occurrences are removed
RECURSIVE Remove(_, _)
Remove(s, old) ==
    LET hits == {i \in 1..(Len(s) - Len(old) + 1) : SubSeq(s, i, i + Len(old) - 1) = old}
    IN  IF hits = {} THEN s
        ELSE LET i == CHOOSE h \in hits : \A k \in hits : h <= k
             IN  SubSeq(s, 1, i - 1) \o Remove(Drop(s, i + Len(old) - 1), old)

\* str.split(sep) for a one-character sep: the fields between separators
Split(s, sep) ==
    LET at == Positions(s, LAMBDA i : s[i] = sep)
        lo(k) == IF k = 1 THEN 1 ELSE at[k - 1] + 1
        hi(k) == IF k = Len(at) + 1 THEN Len(s) ELSE at[k] - 1
    IN  [k \in 1..(Len(at) + 1) |-> SubSeq(s, lo(k), hi(k))]

\* str.split(sep, 1)
SplitFirst(s, sep) ==
    LET hits == {i \in 1..Len(s) : s[i] = sep}
    IN  IF hits = {} THEN <<s>>
        ELSE LET i == CHOOSE h \in hits : \A k \in hits : h <= k
             IN  <<SubSeq(s, 1, i - 1), SubSeq(s, i + 1, Len(s))>>

\* the text with universal newlines: '\r\n' and '\r' become '\n'
UniversalNewlines(t) ==
    Concat([i \in 1..Len(t) |->
              IF t[i] # 13 THEN <<t[i]>>
              ELSE IF i < Len(t) /\ t[i + 1] = 10 THEN <<>>
              ELSE <<10>>])

\* the text a file opened in text mode yields, from the UTF-8 decoding d of
\* its bytes
TextOf(d) == [ok |-> d.ok, text |-> UniversalNewlines(d.text)]

\* the text a file opened in text mode yields: UTF-8 decoded, with
\* universal newlines; [ok, text]
ReadText(b) == TextOf(Utf8Decode(b))

\* the lines of the text t whose '\n' are at the positions nl
LinesAt(t, nl) ==
    [k \in 1..(Len(nl) + (IF nl = <<>> THEN (IF t = <<>> THEN 0 ELSE 1)
                          ELSE (IF nl[Len(nl)] < Len(t) THEN 1 ELSE 0))) |->
        SubSeq(t, IF k = 1 THEN 1 ELSE nl[k - 1] + 1,
                  IF k <= Len(nl) THEN nl[k] ELSE Len(t))]

\* f.readlines(): the lines of the text, each keeping its '\n'
ReadLines(t) == LinesAt(t, Positions(t, LAMBDA i : t[i] = 10))

\* float of an optionally signed run of digits
FloatOfDigits(ds, negative) ==
    IF Len(ds) = 0 \/ \E i \in 1..Len(ds) : ~IsDigit(ds[i])
    THEN [ok |-> FALSE, v |-> 0]
    ELSE [ok |-> TRUE, v |-> IF negative THEN -NatOfDigits(ds) ELSE NatOfDigits(ds)]

\* float of a text without surrounding white space
FloatOfStripped(s) ==
    IF Len(s) > 0 /\ s[1] \in {43, 45} THEN FloatOfDigits(Tail(s), s[1] = 45)
    ELSE FloatOfDigits(s, FALSE)

\* float(text) on the texts the model feeds it: surrounding white space is
\* ignored and the rest must be an optionally signed run of ASCII digits
\* (inputs never use '.', 'e', '_', 'inf' or 'nan'); [ok, v], ok = FALSE
\* being ValueError
ParseFloat(text) == FloatOfStripped(Strip(text))

\* the end of the maximal run of digits that starts at text[i]
DigitRunStop(text, i) ==
    CHOOSE j \in i..Len(text) :
       /\ \A k \in i..j : IsDigit(text[k])
       /\ (j = Len(text) \/ ~IsDigit(text[j + 1]))

\* the runs of digits of the text that start at the positions starts
DigitRunsAt(text, starts) ==
    [k \in 1..Len(starts) |-> SubSeq(text, starts[k], DigitRunStop(text, starts[k]))]

\* re.findall(r'\d+', text): the maximal runs of ASCII digits, in order
DigitRuns(text) ==
    DigitRunsAt(text, Positions(text, LAMBDA i : IsDigit(text[i]) /\ (i = 1 \/ ~IsDigit(text[i - 1]))))

-----------------------------------------------------------------------------
(* CSVParser.                                                              *)

\* 'asset'
KwAsset == <<97, 115, 115, 101, 116>>

\* 'transformer'
KwTransformer == <<116, 114, 97, 110, 115, 102, 111, 114, 109, 101, 114>>

\* 'id'
KwId == <<105, 100>>

\* 'manufacturer'
KwManufacturer == <<109, 97, 110, 117, 102, 97, 99, 116, 117, 114, 101, 114>>

\* 'make'
KwMake == <<109, 97, 107, 101>>

\* 'model'
KwModel == <<109, 111, 100, 101, 108>>

\* 'mva'
KwMva == <<109, 118, 97>>

\* 'rating'
KwRating == <<114, 97, 116, 105, 110, 103>>

\* 'date'
KwDate == <<100, 97, 116, 101>>

\* 'instrument'
KwInstrument == <<105, 110, 115, 116, 114, 117, 109, 101, 110, 116>>

\* 'device'
KwDevice == <<100, 101, 118, 105, 99, 101>>

\* 'voltage'
KwVoltage == <<118, 111, 108, 116, 97, 103, 101>>

\* 'test'
KwTest == <<116, 101, 115, 116>>

\* 'MVA'
KwMVA == <<77, 86, 65>>

\* ',', ';', '\t', '|'
supported_delimiters == <<44, 59, 9, 124>>

\* 'freq', 'frequency', 'f', 'hz'
frequency_keywords ==
    <<<<102, 114, 101, 113>>, <<102, 114, 101, 113, 117, 101, 110, 99, 121>>, <<102>>, <<104, 122>>>>

\* 'mag', 'magnitude', 'amp', 'amplitude', 'db', 'gain'
magnitude_keywords ==
    <<<<109, 97, 103>>, <<109, 97, 103, 110, 105, 116, 117, 100, 101>>, <<97, 109, 112>>,
      <<97, 109, 112, 108, 105, 116, 117, 100, 101>>, <<100, 98>>, <<103, 97, 105, 110>>>>

\* 'phase', 'ph', 'angle', 'deg', 'degrees'
phase_keywords ==
    <<<<112, 104, 97, 115, 101>>, <<112, 104>>, <<97, 110, 103, 108, 101>>,
      <<100, 101, 103>>, <<100, 101, 103, 114, 101, 101, 115>>>>

\* the supported delimiter that occurs most often in the sample, the
\* earliest in the list on a tie
MostFrequentDelimiter(sample) ==
    supported_delimiters[
        CHOOSE k \in 1..4 :
           /\ \A j \in 1..4 : Count(sample, supported_delimiters[j])
                                <= Count(sample, supported_delimiters[k])
           /\ \A j \in 1..(k - 1) : Count(sample, supported_delimiters[j])
                                       < Count(sample, supported_delimiters[k])]

\* detect_delimiter on the text of the file: its first 1024 characters decide
detect_delimiter(text) == MostFrequentDelimiter(Take(text, 1024))

\* a stripped line that starts with '#', '%' or '//'
StartsComment(s) == StartsWith(s, <<35>>) \/ StartsWith(s, <<37>>) \/ StartsWith(s, <<47, 47>>)

\* line.strip() starts with '#', '%' or '//'
IsCommentLine(line) == StartsComment(Strip(line))

\* a comment line that sets no metadata
NoEntry == [field |-> "", val |-> <<>>, num |-> 0]

\* the rating entry: float(value.replace('MVA', '').strip()), a failure
\* being swallowed
RatingEntry(f) == IF f.ok THEN [field |-> "rating_MVA", val |-> <<>>, num |-> f.v] ELSE NoEntry

\* the test voltage entry: the first run of digits of the value, if any
VoltageEntry(runs) ==
    IF Len(runs) > 0 THEN [field |-> "test_voltage", val |-> <<>>, num |-> NatOfDigits(runs[1])]
    ELSE NoEntry

\* the first rule without the word 'transformer'
IsAssetKeyListed(key) == Contains(key, KwAsset) \/ Contains(key, KwId)

\* the first rule: 'asset' in key or 'transformer' in key or 'id' in key
IsAssetKey(key) == Contains(key, KwAsset) \/ Contains(key, KwTransformer) \/ Contains(key, KwId)

\* the metadata entry for a key and a value; the rules are tried in the
\* order of the code
MetadataEntry(key, val) ==
    IF IsAssetKey(key)
    THEN [field |-> "asset_id", val |-> val, num |-> 0]
    ELSE IF Contains(key, KwManufacturer) \/ Contains(key, KwMake)
         THEN [field |-> "manufacturer", val |-> val, num |-> 0]
    ELSE IF Contains(key, KwModel)
         THEN [field |-> "model", val |-> val, num |-> 0]
    ELSE IF Contains(key, KwMva) \/ Contains(key, KwRating)
         THEN RatingEntry(ParseFloat(Strip(Remove(val, KwMVA))))
    ELSE IF Contains(key, KwDate)
         THEN [field |-> "test_date", val |-> val, num |-> 0]
    ELSE IF Contains(key, KwInstrument) \/ Contains(key, KwDevice)
         THEN [field |-> "instrument", val |-> val, num |-> 0]
    ELSE IF Contains(key, KwVoltage) /\ Contains(key, KwTest)
         THEN VoltageEntry(DigitRuns(val))
    ELSE NoEntry

\* the entry of the key and value kv = line[1:].split(':', 1)
KeyValueEntry(kv) == MetadataEntry(ReplaceChar(Lower(Strip(kv[1])), 32, 95), Strip(kv[2]))

\* the entry of a stripped line
StrippedLineEntry(s) ==
    IF ~StartsComment(s) \/ Count(s, 58) = 0 THEN NoEntry
    ELSE KeyValueEntry(SplitFirst(Tail(s), 58))

\* the metadata entry one line sets: [field, val, num], field = "" when the
\* line sets nothing
MetadataRule(line) == StrippedLineEntry(Strip(line))

\* the greatest element of a set of positions, 0 for the empty set
LastOf(hits) == IF hits = {} THEN 0 ELSE CHOOSE i \in hits : \A k \in hits : k <= i

\* the last of the entries that sets the field, 0 when none does
LastEntry(rule, field) == LastOf({i \in 1..Len(rule) : rule[i].field = field})

\* the text or the number that entry number at holds, the default for at = 0
EntryText(rule, at, default) == IF at = 0 THEN default ELSE rule[at].val

EntryNumber(rule, at, default) == IF at = 0 THEN default ELSE rule[at].num

\* the metadata the entries of the header lines leave: the defaults,
\* overwritten in line order, so the last line that sets a field wins
MetadataOf(rule) ==
    [asset_id |-> EntryText(rule, LastEntry(rule, "asset_id"), Unknown),
     manufacturer |-> EntryText(rule, LastEntry(rule, "manufacturer"), Unknown),
     model |-> EntryText(rule, LastEntry(rule, "model"), Unknown),
     rating_MVA |-> EntryNumber(rule, LastEntry(rule, "rating_MVA"), 100),
     test_date |-> EntryText(rule, LastEntry(rule, "test_date"), IsoFormat(NowTs)),
     instrument |-> EntryText(rule, LastEntry(rule, "instrument"), Unknown),
     test_voltage |-> EntryNumber(rule, LastEntry(rule, "test_voltage"), 1000)]

\* parse_header_metadata: the first 20 lines are looked at
parse_header_metadata(lines) ==
    MetadataOf([i \in 1..Min(Len(lines), 20) |-> MetadataRule(lines[i])])

\* whether some keyword of the list occurs in the column name
AnyKeyword(keywords, name) == \E k \in 1..Len(keywords) : Contains(name, keywords[k])

\* the column a stripped, lower-cased name is taken for: the first of
\* frequency, magnitude, phase one of whose keywords occurs in it
ColumnKind(col) ==
    IF AnyKeyword(frequency_keywords, col) THEN "frequency"
    ELSE IF AnyKeyword(magnitude_keywords, col) THEN "magnitude"
    ELSE IF AnyKeyword(phase_keywords, col) THEN "phase"
    ELSE ""

\* the 0-based index of the last column of that kind, -1 when there is none
ColumnOf(kinds, kind) == LastOf({i \in 1..Len(kinds) : kinds[i] = kind}) - 1

\* the columns from the kinds of the header names; without a frequency
\* column the first columns are taken by position
ColumnsOf(kinds, frequency, phase) ==
    IF frequency = -1 /\ Len(kinds) >= 2
    THEN [frequency |-> 0, magnitude |-> 1, phase |-> IF Len(kinds) >= 3 THEN 2 ELSE phase]
    ELSE [frequency |-> frequency, magnitude |-> ColumnOf(kinds, "magnitude"), phase |-> phase]

\* the columns of the header names whose kinds are kinds
ColumnsOfKinds(kinds) == ColumnsOf(kinds, ColumnOf(kinds, "frequency"), ColumnOf(kinds, "phase"))

\* identify_columns: 0-based column indices, -1 for a column not identified
identify_columns(header_row) ==
    ColumnsOfKinds([i \in 1..Len(header_row) |-> ColumnKind(Strip(Lower(header_row[i])))])

\* 20 * log10(max(m, 1e-12)) for m = 0..9, rounded to the nearest integer
LinearToDb == <<-240, 0, 6, 10, 12, 14, 16, 17, 18, 19>>

\* convert_magnitude_to_db
convert_magnitude_to_db(magnitudes, current_unit) ==
    IF current_unit \in {"db", "decibel"} THEN magnitudes
    ELSE [i \in 1..Len(magnitudes) |-> LinearToDb[magnitudes[i] + 1]]

\* Path.suffix of a file name: from the last '.', unless the name starts or
\* ends with it
Suffix(name) ==
    LET dots == {i \in 2..(Len(name) - 1) : name[i] = 46}
    IN  IF dots = {} THEN <<>>
        ELSE Drop(name, (CHOOSE i \in dots : \A k \in dots : k <= i) - 1)

\* Path.stem
Stem(name) == Take(name, Len(name) - Len(Suffix(name)))

\* a line without its line end
Chomp(line) == IF Len(line) > 0 /\ line[Len(line)] = 10 THEN Take(line, Len(line) - 1) ELSE line

\* the fields of a line that has no line end
FieldsOf(s, delimiter) == IF s = <<>> THEN <<>> ELSE Split(s, delimiter)

\* one row of csv.reader (no quoting in the input): the fields of the line
\* without its line end; a blank line gives a row with no fields
CsvRow(line, delimiter) == FieldsOf(Chomp(line), delimiter)

\* a row that appends nothing
SkipRow == [freq |-> <<>>, mag |-> <<>>, phase |-> <<>>]

\* what a row with the parsed frequency f and magnitude m appends, phase
\* being the text of its phase field.  Frequency and magnitude are appended
\* as soon as both parse; the phase is parsed after that, so a row whose
\* phase fails to parse has already added its frequency and magnitude.
CsvRowValues(f, m, has_phase, p) ==
    IF ~f.ok \/ ~m.ok THEN SkipRow
    ELSE [freq |-> <<f.v>>, mag |-> <<m.v>>,
          phase |-> IF has_phase /\ p.ok THEN <<p.v>> ELSE <<>>]

\* the data loop of CSVParser.parse_file over rows[1:]: what each row
\* appends; a row too short for the columns is skipped
CsvRowEffect(row, columns) ==
    IF Len(row) <= Max(Max(columns.frequency, columns.magnitude), columns.phase) THEN SkipRow
    ELSE CsvRowValues(ParseFloat(row[columns.frequency + 1]),
                      ParseFloat(row[columns.magnitude + 1]),
                      columns.phase # -1,
                      IF columns.phase = -1 THEN [ok |-> FALSE, v |-> 0]
                      ELSE ParseFloat(row[columns.phase + 1]))

\* 'test_' + stem + '_' + strftime('%Y%m%d_%H%M%S')
CsvTestId(name) == <<116, 101, 115, 116, 95>> \o Stem(name) \o <<95>> \o IsoFormat(NowTs)

\* the magnitudes in dB: taken for linear, and converted, when all are in [0, 10)
MagnitudesDb(magnitudes) ==
    IF \A i \in 1..Len(magnitudes) : magnitudes[i] >= 0 /\ magnitudes[i] < 10
    THEN convert_magnitude_to_db(magnitudes, "linear")
    ELSE convert_magnitude_to_db(magnitudes, "db")

\* the measurement block of the record both text parsers build
MeasurementOf(frequencies, magnitudes, phases) ==
    IF phases = <<>>
    THEN [frequencies |-> frequencies, magnitudes |-> magnitudes,
          unit |-> "dB", connection |-> DefaultConnection,
          resolution |-> Len(frequencies),
          freq_start |-> frequencies[1], freq_end |-> frequencies[Len(frequencies)]]
    ELSE [frequencies |-> frequencies, magnitudes |-> magnitudes,
          unit |-> "dB", connection |-> DefaultConnection,
          resolution |-> Len(frequencies),
          freq_start |-> frequencies[1], freq_end |-> frequencies[Len(frequencies)],
          phases |-> phases, phase_unit |-> "degrees"]

\* the canonical record both text parsers build from the metadata and data
TextRecord(name, b, format, metadata, measurement) ==
    [asset_metadata |->
       [asset_id |-> metadata.asset_id,
        manufacturer |-> metadata.manufacturer,
        model |-> metadata.model,
        rating_MVA |-> metadata.rating_MVA,
        winding_config |-> Unknown, serial |-> Unknown,
        year_installed |-> 2020, voltage_levels |-> <<132, 33>>],
     test_info |->
       [test_id |-> CsvTestId(name),
        date |-> metadata.test_date,
        technician |-> Unknown,
        instrument |-> metadata.instrument,
        test_voltage |-> metadata.test_voltage,
        coupling |-> "capacitive",
        ambient_temp |-> 25],
     measurement |-> measurement,
     raw_file |->
       [filename |-> name, vendor_name |-> "generic", original_format |-> format,
        file_size |-> Len(b), parser_version |-> "1.0"]]

\* the end of CSVParser.parse_file: at least 10 frequencies are required
CsvRecord(name, b, metadata, frequencies, magnitudes, phases) ==
    IF Len(frequencies) < 10
    THEN Raise("ValueError", "Insufficient valid data points (minimum 10 required)")
    ELSE Ok(TextRecord(name, b, "csv", metadata,
                       MeasurementOf(frequencies, MagnitudesDb(magnitudes), phases)))

\* the lists the data loop leaves, eff being what each row appends
CsvData(name, b, metadata, eff) ==
    CsvRecord(name, b, metadata,
              Concat([k \in 1..Len(eff) |-> eff[k].freq]),
              Concat([k \in 1..Len(eff) |-> eff[k].mag]),
              Concat([k \in 1..Len(eff) |-> eff[k].phase]))

\* the columns the header row rows[0] gives, then the data loop over rows[1:]
CsvColumns(name, b, metadata, rows, columns) ==
    IF columns.frequency = -1 \/ columns.magnitude = -1
    THEN Raise("ValueError", "Could not identify frequency and magnitude columns")
    ELSE CsvData(name, b, metadata,
                 [k \in 1..(Len(rows) - 1) |-> CsvRowEffect(rows[k + 1], columns)])

\* the rows csv.reader yields from the first data line on
CsvRows(name, b, metadata, rows) ==
    IF Len(rows) < 2 THEN Raise("ValueError", "Insufficient data rows in CSV file")
    ELSE CsvColumns(name, b, metadata, rows, identify_columns(rows[1]))

\* the first element of a set of positions, 1 for the empty set: data_start
\* (1-based) stays at the first line when no line is a data line
FirstOf(data) == IF data = {} THEN 1 ELSE CHOOSE i \in data : \A k \in data : i <= k

\* the first line that is neither a comment nor blank
DataStart(lines) ==
    FirstOf({i \in 1..Len(lines) : ~IsCommentLine(lines[i]) /\ Strip(lines[i]) # <<>>})

\* the lines from data_start on, as rows
RowsFrom(lines, data_start, delimiter) ==
    [k \in 1..(Len(lines) - data_start + 1) |-> CsvRow(lines[data_start + k - 1], delimiter)]

\* the lines of the file and its delimiter
CsvLines(name, b, lines, delimiter) ==
    IF Len(lines) = 0 THEN Raise("ValueError", "Empty CSV file")
    ELSE CsvRows(name, b, parse_header_metadata(lines),
                 RowsFrom(lines, DataStart(lines), delimiter))

\* the text of the file
CsvText(name, b, rt) ==
    IF ~rt.ok THEN Raise("UnicodeDecodeError", "")
    ELSE CsvLines(name, b, ReadLines(rt.text), detect_delimiter(rt.text))

\* CSVParser.parse_file on an existing file
csv_parse_file(name, b) == CsvText(name, b, ReadText(b))

-----------------------------------------------------------------------------
(* XMLParser.  An element is [tag, text, attrib, children]: the tree       *)
(* ElementTree.parse builds.                                               *)

\* 'MeasurementData', 'Data', 'FrequencyResponse', 'FRA_Data', 'Measurements', 'Points', 'Samples'
data_paths ==
    <<<<77, 101, 97, 115, 117, 114, 101, 109, 101, 110, 116, 68, 97, 116, 97>>,
      <<68, 97, 116, 97>>,
      <<70, 114, 101, 113, 117, 101, 110, 99, 121, 82, 101, 115, 112, 111, 110, 115, 101>>,
      <<70, 82, 65, 95, 68, 97, 116, 97>>,
      <<77, 101, 97, 115, 117, 114, 101, 109, 101, 110, 116, 115>>,
      <<80, 111, 105, 110, 116, 115>>,
      <<83, 97, 109, 112, 108, 101, 115>>>>

\* 'freq', 'data', 'measurement'
data_tags ==
    <<<<102, 114, 101, 113>>,
      <<100, 97, 116, 97>>,
      <<109, 101, 97, 115, 117, 114, 101, 109, 101, 110, 116>>>>

\* 'Point', 'DataPoint', 'Sample', 'Measurement'
point_tags ==
    <<<<80, 111, 105, 110, 116>>,
      <<68, 97, 116, 97, 80, 111, 105, 110, 116>>,
      <<83, 97, 109, 112, 108, 101>>,
      <<77, 101, 97, 115, 117, 114, 101, 109, 101, 110, 116>>>>

\* 'Frequency', 'Freq', 'F', 'Hz'
freq_names ==
    <<<<70, 114, 101, 113, 117, 101, 110, 99, 121>>,
      <<70, 114, 101, 113>>,
      <<70>>,
      <<72, 122>>>>

\* 'Magnitude', 'Mag', 'Amplitude', 'dB', 'Gain'
mag_names ==
    <<<<77, 97, 103, 110, 105, 116, 117, 100, 101>>,
      <<77, 97, 103>>,
      <<65, 109, 112, 108, 105, 116, 117, 100, 101>>,
      <<100, 66>>,
      <<71, 97, 105, 110>>>>

\* 'Phase', 'Angle', 'Degrees', 'Deg'
phase_names ==
    <<<<80, 104, 97, 115, 101>>,
      <<65, 110, 103, 108, 101>>,
      <<68, 101, 103, 114, 101, 101, 115>>,
      <<68, 101, 103>>>>

\* 'Frequencies', 'FrequencyArray', 'F_Array'
freq_array_tags ==
    <<<<70, 114, 101, 113, 117, 101, 110, 99, 105, 101, 115>>,
      <<70, 114, 101, 113, 117, 101, 110, 99, 121, 65, 114, 114, 97, 121>>,
      <<70, 95, 65, 114, 114, 97, 121>>>>

\* 'Magnitudes', 'MagnitudeArray', 'Mag_Array'
mag_array_tags ==
    <<<<77, 97, 103, 110, 105, 116, 117, 100, 101, 115>>,
      <<77, 97, 103, 110, 105, 116, 117, 100, 101, 65, 114, 114, 97, 121>>,
      <<77, 97, 103, 95, 65, 114, 114, 97, 121>>>>

\* 'Asset', 'Transformer', 'Equipment', 'Device'
asset_paths ==
    <<<<65, 115, 115, 101, 116>>,
      <<84, 114, 97, 110, 115, 102, 111, 114, 109, 101, 114>>,
      <<69, 113, 117, 105, 112, 109, 101, 110, 116>>,
      <<68, 101, 118, 105, 99, 101>>>>

\* 'ID', 'AssetID', 'SerialNumber', 'Name'
id_names ==
    <<<<73, 68>>,
      <<65, 115, 115, 101, 116, 73, 68>>,
      <<83, 101, 114, 105, 97, 108, 78, 117, 109, 98, 101, 114>>,
      <<78, 97, 109, 101>>>>

\* 'Manufacturer', 'Make', 'Brand'
mfg_names ==
    <<<<77, 97, 110, 117, 102, 97, 99, 116, 117, 114, 101, 114>>,
      <<77, 97, 107, 101>>,
      <<66, 114, 97, 110, 100>>>>

\* 'Model', 'Type', 'ModelNumber'
model_names ==
    <<<<77, 111, 100, 101, 108>>,
      <<84, 121, 112, 101>>,
      <<77, 111, 100, 101, 108, 78, 117, 109, 98, 101, 114>>>>

\* 'Rating', 'MVA', 'Power', 'Capacity'
rating_names ==
    <<<<82, 97, 116, 105, 110, 103>>,
      <<77, 86, 65>>,
      <<80, 111, 119, 101, 114>>,
      <<67, 97, 112, 97, 99, 105, 116, 121>>>>

\* 'Test', 'TestInfo', 'Measurement', 'TestConditions'
test_paths ==
    <<<<84, 101, 115, 116>>,
      <<84, 101, 115, 116, 73, 110, 102, 111>>,
      <<77, 101, 97, 115, 117, 114, 101, 109, 101, 110, 116>>,
      <<84, 101, 115, 116, 67, 111, 110, 100, 105, 116, 105, 111, 110, 115>>>>

\* 'Date', 'TestDate', 'DateTime', 'Timestamp'
date_names ==
    <<<<68, 97, 116, 101>>,
      <<84, 101, 115, 116, 68, 97, 116, 101>>,
      <<68, 97, 116, 101, 84, 105, 109, 101>>,
      <<84, 105, 109, 101, 115, 116, 97, 109, 112>>>>

\* 'Instrument', 'Device', 'Analyzer', 'Equipment'
instrument_names ==
    <<<<73, 110, 115, 116, 114, 117, 109, 101, 110, 116>>,
      <<68, 101, 118, 105, 99, 101>>,
      <<65, 110, 97, 108, 121, 122, 101, 114>>,
      <<69, 113, 117, 105, 112, 109, 101, 110, 116>>>>

\* 'Voltage', 'TestVoltage', 'ExcitationVoltage'
voltage_names ==
    <<<<86, 111, 108, 116, 97, 103, 101>>,
      <<84, 101, 115, 116, 86, 111, 108, 116, 97, 103, 101>>,
      <<69, 120, 99, 105, 116, 97, 116, 105, 111, 110, 86, 111, 108, 116, 97, 103, 101>>>>

\* str.endswith
EndsWith(s, p) == Len(p) <= Len(s) /\ SubSeq(s, Len(s) - Len(p) + 1, Len(s)) = p

\* Element.iter(): the element and its descendants in document order
RECURSIVE Iter(_)
Iter(e) == <<e>> \o Concat([i \in 1..Len(e.children) |-> Iter(e.children[i])])

\* Element.findall('.//' + tag): the descendants with that tag
FindAllDeep(e, tag) == SelectSeq(Tail(Iter(e)), LAMBDA x : x.tag = tag)

\* the first element of a list, as a list of at most one element (None = <<>>)
First(s) == IF s = <<>> THEN <<>> ELSE <<s[1]>>

\* the first of a list of found elements if there is one, else the search
\* goes on with the remaining tags
RECURSIVE FindFirstDeep(_, _)
FirstFound(e, tags, found) ==
    IF found # <<>> THEN First(found) ELSE FindFirstDeep(e, Tail(tags))

\* the first non-empty result of root.find('.//' + tag) over the tags
FindFirstDeep(e, tags) ==
    IF tags = <<>> THEN <<>> ELSE FirstFound(e, tags, FindAllDeep(e, Head(tags)))

\* one name of find_element_by_names: direct holds the children with
\* exactly that tag, loose the elements of root.iter() whose lower-cased
\* tag ends with the lower-cased name
RECURSIVE find_element_by_names(_, _)
FoundByName(root, names, direct, loose) ==
    IF direct # <<>> THEN First(direct)
    ELSE IF loose # <<>> THEN First(loose)
    ELSE find_element_by_names(root, Tail(names))

\* find_element_by_names: per name, a child with exactly that tag, else the
\* first element of root.iter() whose lower-cased tag ends with the name
find_element_by_names(root, names) ==
    IF names = <<>> THEN <<>>
    ELSE FoundByName(root, names,
                     SelectSeq(root.children, LAMBDA c : c.tag = Head(names)),
                     SelectSeq(Iter(root),
                               LAMBDA c : EndsWith(Lower(c.tag), Lower(Head(names)))))

\* the stripped text if it is not empty, else the 'value' attribute if
\* asked for and present, else 'unknown'
TextOrAttr(e, stripped, with_value) ==
    IF stripped # <<>> THEN stripped
    ELSE IF with_value /\ "value" \in DOMAIN e.attrib THEN e.attrib.value
    ELSE Unknown

\* extract_text_or_attr(element, ['value'] if with_value else None)
extract_text_or_attr(element, with_value) ==
    IF element = <<>> THEN Unknown
    ELSE TextOrAttr(element[1], Strip(element[1].text), with_value)

\* what a point with a frequency and a magnitude element appends: frequency
\* and magnitude as soon as both parse, then the phase if there is a phase
\* element and its text parses
XmlPointValues(f, m, has_phase, p) ==
    IF ~f.ok \/ ~m.ok THEN SkipRow
    ELSE [freq |-> <<f.v>>, mag |-> <<m.v>>,
          phase |-> IF has_phase /\ p.ok THEN <<p.v>> ELSE <<>>]

\* the elements of one point
XmlPointElems(freq_elem, mag_elem, phase_elem) ==
    IF freq_elem = <<>> \/ mag_elem = <<>> THEN SkipRow
    ELSE XmlPointValues(ParseFloat(extract_text_or_attr(freq_elem, TRUE)),
                        ParseFloat(extract_text_or_attr(mag_elem, TRUE)),
                        phase_elem # <<>>,
                        ParseFloat(extract_text_or_attr(phase_elem, TRUE)))

\* what one point element appends in parse_frequency_data
XmlPointEffect(point) ==
    XmlPointElems(find_element_by_names(point, freq_names),
                  find_element_by_names(point, mag_names),
                  find_element_by_names(point, phase_names))

\* the floats of a list of texts: [ok, v]
FloatsOf(fl) ==
    [ok |-> \A i \in 1..Len(fl) : fl[i].ok, v |-> [i \in 1..Len(fl) |-> fl[i].v]]

\* the float of each text of a list
FloatEach(parts) == FloatsOf([i \in 1..Len(parts) |-> ParseFloat(parts[i])])

\* [float(x.strip()) for x in text.split(separator) if x.strip()]: [ok, v]
FloatList(text, separator) ==
    FloatEach(SelectSeq(Split(text, separator), LAMBDA x : Strip(x) # <<>>))

\* ',', ';', ' ', '\t', '\n'
separators == <<44, 59, 32, 9, 10>>

\* the array layout with no data taken
NoArrays == [status |-> "ok", frequencies |-> <<>>, magnitudes |-> <<>>]

\* one separator that occurs in the frequency text: the values fv and mv
\* are taken when they are equally many and more than 10
RECURSIVE XmlArrays(_, _, _)
XmlArraysTry(freq_text, mag_text, k, fv, mv) ==
    IF ~fv.ok \/ ~mv.ok
    THEN [status |-> "error", frequencies |-> <<>>, magnitudes |-> <<>>]
    ELSE IF Len(fv.v) = Len(mv.v) /\ Len(fv.v) > 10
         THEN [status |-> "ok", frequencies |-> fv.v, magnitudes |-> mv.v]
    ELSE XmlArrays(freq_text, mag_text, k + 1)

\* the separator loop of the array layout, from separator k on: [status,
\* frequencies, magnitudes]; a value that does not parse raises ValueError
XmlArrays(freq_text, mag_text, k) ==
    IF k > Len(separators) THEN NoArrays
    ELSE IF Count(freq_text, separators[k]) = 0 THEN XmlArrays(freq_text, mag_text, k + 1)
    ELSE XmlArraysTry(freq_text, mag_text, k,
                      FloatList(freq_text, separators[k]),
                      FloatList(mag_text, separators[k]))

\* a failure of parse_frequency_data
DataError(msg) == [status |-> "error", msg |-> msg]

\* the end of parse_frequency_data: at least 10 frequencies are required
XmlData(data) ==
    IF data.status = "error" THEN DataError("could not convert string to float")
    ELSE IF Len(data.frequencies) < 10
         THEN DataError("Insufficient frequency data points found in XML")
    ELSE data

\* the lists the point loop leaves, eff being what each point appends
XmlPointData(eff) ==
    [status |-> "ok",
     frequencies |-> Concat([k \in 1..Len(eff) |-> eff[k].freq]),
     magnitudes |-> Concat([k \in 1..Len(eff) |-> eff[k].mag]),
     phases |-> Concat([k \in 1..Len(eff) |-> eff[k].phase])]

\* the array layout: the first frequency and magnitude array elements
XmlArrayData(freq_array, mag_array) ==
    IF freq_array # <<>> /\ mag_array # <<>>
    THEN XmlArrays(freq_array[1].text, mag_array[1].text, 1) @@ [phases |-> <<>>]
    ELSE NoArrays @@ [phases |-> <<>>]

\* the data of the measurement element me: its points (the first point tag
\* that finds any), else its arrays
XmlPoints(me, lists) ==
    IF lists # <<>>
    THEN XmlData(XmlPointData([k \in 1..Len(lists[1]) |-> XmlPointEffect(lists[1][k])]))
    ELSE XmlData(XmlArrayData(FindFirstDeep(me, freq_array_tags),
                              FindFirstDeep(me, mag_array_tags)))

\* the measurement element, if any
XmlMeasurement(measurement_elem) ==
    IF measurement_elem = <<>> THEN DataError("Could not find measurement data in XML")
    ELSE XmlPoints(measurement_elem[1],
                   SelectSeq([k \in 1..Len(point_tags) |->
                                  FindAllDeep(measurement_elem[1], point_tags[k])],
                             LAMBDA l : l # <<>>))

\* the measurement element: by_path if found, else the first element whose
\* lower-cased tag contains 'freq', 'data' or 'measurement'
MeasurementElem(root, by_path) ==
    IF by_path # <<>> THEN by_path
    ELSE First(SelectSeq(Iter(root),
                 LAMBDA e : \E k \in 1..Len(data_tags) : Contains(Lower(e.tag), data_tags[k])))

\* parse_frequency_data: [status, msg] or [status, frequencies, magnitudes, phases]
parse_frequency_data(root) ==
    XmlMeasurement(MeasurementElem(root, FindFirstDeep(root, data_paths)))

\* the number parse_metadata takes from a rating or voltage element:
\* float(re.findall(r'[\d.]+', text)[0]) on texts without '.'; the default
\* when the text has no digits
FirstNumber(runs, default) == IF runs = <<>> THEN default ELSE NatOfDigits(runs[1])

\* a text field of parse_metadata, elem being the element found for it
MetaTextOf(elem, default) ==
    IF elem = <<>> THEN default ELSE extract_text_or_attr(elem, FALSE)

\* a number field of parse_metadata
MetaNumberOf(elem, default) ==
    IF elem = <<>> THEN default
    ELSE FirstNumber(DigitRuns(extract_text_or_attr(elem, FALSE)), default)

\* a field looked up by names in a section that may be missing
MetaText(section, names, default) ==
    IF section = <<>> THEN default
    ELSE MetaTextOf(find_element_by_names(section[1], names), default)

MetaNumber(section, names, default) ==
    IF section = <<>> THEN default
    ELSE MetaNumberOf(find_element_by_names(section[1], names), default)

\* the metadata of the asset and test sections
XmlMetadata(asset_elem, test_elem) ==
    [asset_id |-> MetaText(asset_elem, id_names, Unknown),
     manufacturer |-> MetaText(asset_elem, mfg_names, Unknown),
     model |-> MetaText(asset_elem, model_names, Unknown),
     rating_MVA |-> MetaNumber(asset_elem, rating_names, 100),
     test_date |-> MetaText(test_elem, date_names, IsoFormat(NowTs)),
     instrument |-> MetaText(test_elem, instrument_names, Unknown),
     test_voltage |-> MetaNumber(test_elem, voltage_names, 1000)]

\* XMLParser.parse_metadata
xml_parse_metadata(root) ==
    XmlMetadata(FindFirstDeep(root, asset_paths), FindFirstDeep(root, test_paths))

\* a file that ElementTree cannot parse / that it parses to the tree root
NoXml == [ok |-> FALSE]

XmlTree(root) == [ok |-> TRUE, root |-> root]

\* the record of XMLParser.parse_file from the metadata and the data
XmlRecord(name, b, metadata, data) ==
    IF data.status = "error" THEN Raise("ValueError", data.msg)
    ELSE Ok(TextRecord(name, b, "xml", metadata,
                       MeasurementOf(data.frequencies, MagnitudesDb(data.magnitudes),
                                     data.phases)))

\* XMLParser.parse_file on an existing file; doc is ElementTree's parse of it
xml_parse_file(name, b, doc) ==
    IF ~doc.ok THEN Raise("ValueError", "Invalid XML format")
    ELSE XmlRecord(name, b, xml_parse_metadata(doc.root), parse_frequency_data(doc.root))

-----------------------------------------------------------------------------
(* JSON files of FRAParserAdapter.  A JSON object is a record; its list    *)
(* values are sequences of numbers and its free-text values sequences of   *)
(* code points.                                                            *)

\* a file that json.load cannot parse / that it parses to data
NoJson == [ok |-> FALSE]

JsonData(data) == [ok |-> TRUE, data |-> data]

\* _is_canonical_format
is_canonical_format(data) ==
    \A key \in {"asset_metadata", "test_info", "measurement", "raw_file"} : key \in DOMAIN data

\* the value of the first key of the list that the object holds (the
\* objects of the model hold lists under these keys), <<>> for None
RECURSIVE FirstList(_, _)
FirstList(data, keys) ==
    IF keys = <<>> THEN <<>>
    ELSE IF Head(keys) \in DOMAIN data THEN data[Head(keys)]
    ELSE FirstList(data, Tail(keys))

\* 'json_' + strftime('%Y%m%d_%H%M%S')
JsonTestId == <<106, 115, 111, 110, 95>> \o IsoFormat(NowTs)

\* the unit with every file taken to be in dB
DataUnitDb(data) == "dB"

\* data.get('unit', data.get('magnitude_unit', 'dB'))
DataUnit(data) == Get(data, "unit", Get(data, "magnitude_unit", "dB"))

\* _convert_json_to_canonical
convert_json_to_canonical(data, name, size) ==
    LET frequencies == FirstList(data, <<"frequencies", "freq", "frequency", "f", "x_data">>)
        magnitudes == FirstList(data, <<"magnitudes", "magnitude", "mag", "amplitude",
                                        "y_data", "db">>)
        phases == FirstList(data, <<"phases", "phase", "angle", "degrees">>)
        measurement ==
            [frequencies |-> frequencies,
             magnitudes |-> magnitudes,
             unit |-> DataUnit(data),
             connection |-> Get(data, "connection", DefaultConnection),
             resolution |-> Len(frequencies),
             freq_start |-> frequencies[1],
             freq_end |-> frequencies[Len(frequencies)]]
    IN  IF frequencies = <<>> \/ magnitudes = <<>>
        THEN Raise("ValueError", "Could not find frequency and magnitude data in JSON file")
        ELSE Ok([asset_metadata |->
                   [asset_id |-> Get(data, "asset_id", Get(data, "id", Unknown)),
                    manufacturer |-> Get(data, "manufacturer", Get(data, "make", Unknown)),
                    model |-> Get(data, "model", Unknown),
                    rating_MVA |-> Get(data, "rating_MVA", Get(data, "rating", 100)),
                    winding_config |-> Get(data, "winding_config", Unknown),
                    serial |-> Get(data, "serial", Unknown),
                    year_installed |-> Get(data, "year_installed", 2020),
                    voltage_levels |-> Get(data, "voltage_levels", <<132, 33>>)],
                 test_info |->
                   [test_id |-> Get(data, "test_id", JsonTestId),
                    date |-> Get(data, "test_date", Get(data, "date", IsoFormat(NowTs))),
                    technician |-> Get(data, "technician", Unknown),
                    instrument |-> Get(data, "instrument", Get(data, "device", Unknown)),
                    test_voltage |-> Get(data, "test_voltage", Get(data, "voltage", 1000)),
                    coupling |-> Get(data, "coupling", "capacitive"),
                    ambient_temp |-> Get(data, "ambient_temp", Get(data, "temperature", 25))],
                 measurement |->
                   IF phases = <<>> THEN measurement
                   ELSE measurement @@ [phases |-> phases, phase_unit |-> "degrees"],
                 raw_file |->
                   [filename |-> name, vendor_name |-> "generic", original_format |-> "json",
                    file_size |-> size, parser_version |-> "1.0"]])

\* parse_json_file on an existing file; doc is json.load's parse of it
parse_json_file(name, b, doc) ==
    IF ~doc.ok THEN Raise("JSONDecodeError", "")
    ELSE IF is_canonical_format(doc.data) THEN Ok(doc.data)
    ELSE convert_json_to_canonical(doc.data, name, Len(b))

-----------------------------------------------------------------------------
(* The file system, and ProprietaryFormatEmulator.read_file.               *)
(* A file is [bytes, json, xml]: its bytes and what json.load and          *)
(* ElementTree.parse make of them.  fsys maps the existing paths to files. *)

\* a file that is neither JSON nor XML
BytesFile(b) == [bytes |-> b, json |-> NoJson, xml |-> NoXml]

\* the decoder of each vendor
Readers ==
    [omicron |-> "read_omicron_frx", doble |-> "read_doble_dbl",
     megger |-> "read_megger_meg", newtons4th |-> "read_newtons4th_n4f"]

\* the decoder `vendor` applied to a file
ReadVendor(vendor, name, b) ==
    IF vendor = "omicron" THEN read_omicron_frx(name, b)
    ELSE IF vendor = "doble" THEN read_doble_dbl(name, b)
    ELSE IF vendor = "megger" THEN read_megger_meg(name, b)
    ELSE read_newtons4th_n4f(name, b)

\* the first vendor of a set of positions in Vendors, "" (None) for none
FirstVendor(S) == IF S = {} THEN "" ELSE Vendors[CHOOSE k \in S : \A j \in S : k <= j]

\* the vendor whose full signature occurs in the header, the first in the
\* order of the dict
VendorBySignature(header) ==
    FirstVendor({k \in 1..Len(Vendors) : Contains(header, vendor_signatures[Vendors[k]])})

\* the vendor whose extension the path has
VendorByExtension(extension) ==
    FirstVendor({k \in 1..Len(Vendors) : format_extensions[Vendors[k]] = extension})

\* the vendor read_file settles on: the one whose extension the path has,
\* else the first whose full signature occurs in the first 64 bytes, else
\* "" (None)
read_file_vendor(path, b) ==
    IF VendorByExtension(Lower(Suffix(path))) # "" THEN VendorByExtension(Lower(Suffix(path)))
    ELSE VendorBySignature(Rd(b, 0, 64))

\* a result together with the decoder that was invoked to produce it
\* ("" when none was)
Via(result, decoder) == result @@ [via |-> decoder]

\* read_file once the vendor is settled
ReadAs(vendor, path, b) ==
    IF vendor = ""
    THEN Via(Raise("ValueError", "Could not detect binary format for file"), "")
    ELSE Via(ReadVendor(vendor, path, b), Readers[vendor])

\* ProprietaryFormatEmulator.read_file
read_file(fsys, path) ==
    IF path \notin DOMAIN fsys
    THEN Via(Raise("FileNotFoundError", "Binary file not found"), "")
    ELSE ReadAs(read_file_vendor(path, fsys[path].bytes), path, fsys[path].bytes)

-----------------------------------------------------------------------------
(* FRAParserAdapter.                                                       *)

extension_map ==
    (ExtCsv :> "csv") @@ (ExtTxt :> "csv") @@ (ExtXml :> "xml") @@ (ExtJson :> "json")
    @@ (ExtFrx :> "omicron") @@ (ExtDbl :> "doble") @@ (ExtMeg :> "megger")
    @@ (ExtN4f :> "newtons4th")

\* in the insertion order of the dict
binary_signatures ==
    <<[signature |-> ShortSigOmicron, format_type |-> "omicron"],
      [signature |-> ShortSigDoble, format_type |-> "doble"],
      [signature |-> ShortSigMegger, format_type |-> "megger"],
      [signature |-> ShortSigNewtons4th, format_type |-> "newtons4th"]>>

\* ',', ';', '\t', '|'
csv_patterns == <<44, 59, 9, 124>>

\* bytes.decode('utf-8', errors='ignore') for one- and two-byte forms:
\* bytes that are not part of a valid form are dropped
Utf8DecodeIgnore(b) ==
    Concat([i \in 1..Len(b) |->
              IF b[i] < 128 THEN <<b[i]>>
              ELSE IF IsLead2(b[i]) /\ i < Len(b) /\ IsCont(b[i + 1])
                   THEN <<(b[i] - 192) * 64 + (b[i + 1] - 128)>>
              ELSE <<>>])

\* str.isdigit() of one character below 0x800
IsDigitChar(c) ==
    \/ IsDigit(c)
    \/ c \in {178, 179, 185}
    \/ c >= 1632 /\ c <= 1641
    \/ c >= 1776 /\ c <= 1785
    \/ c >= 1984 /\ c <= 1993

Detected(format_type) == [status |-> "ok", format |-> format_type]

\* the text checks with the JSON check made on every text, whatever its
\* first character
DetectTextAnyJson(header_text, stripped, loads) ==
    IF StartsWith(stripped, <<60, 63, 120, 109, 108>>) \/ Count(Take(header_text, 100), 60) > 0
    THEN Detected("xml")
    ELSE IF loads THEN Detected("json")
    ELSE IF \E k \in 1..Len(csv_patterns) : Count(header_text, csv_patterns[k]) > 5
         THEN Detected("csv")
    ELSE IF (\E i \in 1..Len(header_text) : IsDigitChar(header_text[i]))
            /\ Count(header_text, 10) > 0
         THEN Detected("csv")
    ELSE Detected("binary")

\* the text checks of detect_file_format on the decoded header; loads tells
\* whether json.loads(header_text[:512]) succeeds
DetectText(header_text, stripped, loads) ==
    IF StartsWith(stripped, <<60, 63, 120, 109, 108>>) \/ Count(Take(header_text, 100), 60) > 0
    THEN Detected("xml")
    ELSE IF (StartsWith(stripped, <<123>>) \/ StartsWith(stripped, <<91>>)) /\ loads
         THEN Detected("json")
    ELSE IF \E k \in 1..Len(csv_patterns) : Count(header_text, csv_patterns[k]) > 5
         THEN Detected("csv")
    ELSE IF (\E i \in 1..Len(header_text) : IsDigitChar(header_text[i]))
            /\ Count(header_text, 10) > 0
         THEN Detected("csv")
    ELSE Detected("binary")

\* the first element of a non-empty set of positions
FirstIn(S) == CHOOSE k \in S : \A j \in S : k <= j

\* the checks of detect_file_format on the first 1024 bytes: signed holds
\* the binary signatures that occur in them; json.loads of the first 512
\* characters succeeds when the text is the whole of a JSON file (a cut-off
\* JSON object or array is not JSON)
DetectHeader(file, header, signed, header_text) ==
    IF signed # {} THEN Detected(binary_signatures[FirstIn(signed)].format_type)
    ELSE DetectText(header_text, Strip(header_text),
                    file.json.ok /\ Len(file.bytes) <= 1024 /\ Len(header_text) <= 512)

\* detection from the content of the file
DetectContent(file, header) ==
    DetectHeader(file, header,
                 {k \in 1..Len(binary_signatures) :
                     Contains(header, binary_signatures[k].signature)},
                 Utf8DecodeIgnore(header))

\* the extension of the path decides, else the content
DetectExtension(file, extension) ==
    IF extension \in DOMAIN extension_map THEN Detected(extension_map[extension])
    ELSE DetectContent(file, Rd(file.bytes, 0, 1024))

\* detection that looks at the content first and falls back on the extension
detect_content_first(fsys, path) ==
    IF path \notin DOMAIN fsys THEN Raise("FileNotFoundError", "FRA file not found")
    ELSE IF DetectContent(fsys[path], Rd(fsys[path].bytes, 0, 1024)).format # "binary"
         THEN DetectContent(fsys[path], Rd(fsys[path].bytes, 0, 1024))
    ELSE DetectExtension(fsys[path], Lower(Suffix(path)))

\* detect_file_format
detect_file_format(fsys, path) ==
    IF path \notin DOMAIN fsys THEN Raise("FileNotFoundError", "FRA file not found")
    ELSE DetectExtension(fsys[path], Lower(Suffix(path)))

\* the try block of parse_file: the parser the format is routed to
RouteFile(fsys, path, format_type) ==
    LET file == fsys[path]
    IN  IF format_type = "csv" THEN Via(csv_parse_file(path, file.bytes), "csv_parser.parse_file")
        ELSE IF format_type = "xml"
             THEN Via(xml_parse_file(path, file.bytes, file.xml), "xml_parser.parse_file")
        ELSE IF format_type = "json"
             THEN Via(parse_json_file(path, file.bytes, file.json), "parse_json_file")
        ELSE IF format_type \in {"omicron", "doble", "megger", "newtons4th"}
             THEN read_file(fsys, path)
        ELSE Via(Raise("ValueError", "Unsupported file format"), "")

\* the outcome of the try block when an exception of the routed parser is
\* let through as it is, without the name of the file
RoutedBare(path, format_type, routed) ==
    IF routed.status = "ok" THEN routed @@ [format |-> format_type]
    ELSE [status |-> "error", err |-> routed.err, msg |-> routed.msg,
          cause |-> routed.err, file |-> <<>>, via |-> routed.via,
          format |-> format_type]

\* the outcome of the try block: an exception of the routed parser is
\* re-raised as ValueError('Failed to parse FRA file <name>: <e>')
Routed(path, format_type, routed) ==
    IF routed.status = "ok" THEN routed @@ [format |-> format_type]
    ELSE [status |-> "error", err |-> "ValueError", msg |-> routed.msg,
          cause |-> routed.err, file |-> path, via |-> routed.via,
          format |-> format_type]

\* parse_file once the format is detected; a failed detection propagates
ParseDetected(fsys, path, detected) ==
    IF detected.status = "error" THEN Via(detected, "") @@ [format |-> ""]
    ELSE Routed(path, detected.format, RouteFile(fsys, path, detected.format))

\* FRAParserAdapter.parse_file
parse_file(fsys, path) == ParseDetected(fsys, path, detect_file_format(fsys, path))

\* the check of the arrays without the minimum of 10 points
ValidArraysAnyLength(frequencies, magnitudes) == Len(frequencies) = Len(magnitudes)

\* not (len(frequencies) != len(magnitudes) or len(frequencies) < 10)
ValidArrays(frequencies, magnitudes) ==
    Len(frequencies) = Len(magnitudes) /\ Len(frequencies) >= 10

\* validate_canonical_data (the sections of a record are records and its
\* arrays lists)
validate_canonical_data(data) ==
    /\ \A key \in {"asset_metadata", "test_info", "measurement", "raw_file"} : key \in DOMAIN data
    /\ \A key \in {"asset_id", "manufacturer", "model", "rating_MVA"} :
          key \in DOMAIN data.asset_metadata
    /\ \A key \in {"test_id", "date", "instrument", "test_voltage"} : key \in DOMAIN data.test_info
    /\ \A key \in {"frequencies", "magnitudes", "unit"} : key \in DOMAIN data.measurement
    /\ ValidArrays(data.measurement.frequencies, data.measurement.magnitudes)
    /\ "phases" \in DOMAIN data.measurement
          => Len(data.measurement.phases) = Len(data.measurement.frequencies)

-----------------------------------------------------------------------------
(* The text of JSON and XML documents: how the files the model parses are  *)
(* written.                                                                *)

\* the keys a JSON object of the model may hold, in the order they are written
JsonKeys ==
    <<"asset_metadata", "asset_id", "manufacturer", "model", "rating_MVA",
      "winding_config", "serial", "year_installed", "voltage_levels", "test_info",
      "test_id", "date", "technician", "instrument", "test_voltage",
      "coupling", "ambient_temp", "measurement", "frequencies", "magnitudes",
      "phases", "unit", "phase_unit", "connection", "resolution",
      "freq_start", "freq_end", "raw_file", "filename", "vendor_name",
      "original_format", "file_size", "parser_version", "freq", "mag",
      "phase", "magnitude_unit", "id">>

\* the spelling of a key
KeyText(key) ==
    CASE key = "asset_metadata" -> <<97, 115, 115, 101, 116, 95, 109, 101, 116, 97, 100, 97, 116, 97>>
      [] key = "asset_id" -> <<97, 115, 115, 101, 116, 95, 105, 100>>
      [] key = "manufacturer" -> <<109, 97, 110, 117, 102, 97, 99, 116, 117, 114, 101, 114>>
      [] key = "model" -> <<109, 111, 100, 101, 108>>
      [] key = "rating_MVA" -> <<114, 97, 116, 105, 110, 103, 95, 77, 86, 65>>
      [] key = "winding_config" -> <<119, 105, 110, 100, 105, 110, 103, 95, 99, 111, 110, 102, 105, 103>>
      [] key = "serial" -> <<115, 101, 114, 105, 97, 108>>
      [] key = "year_installed" -> <<121, 101, 97, 114, 95, 105, 110, 115, 116, 97, 108, 108, 101, 100>>
      [] key = "voltage_levels" -> <<118, 111, 108, 116, 97, 103, 101, 95, 108, 101, 118, 101, 108, 115>>
      [] key = "test_info" -> <<116, 101, 115, 116, 95, 105, 110, 102, 111>>
      [] key = "test_id" -> <<116, 101, 115, 116, 95, 105, 100>>
      [] key = "date" -> <<100, 97, 116, 101>>
      [] key = "technician" -> <<116, 101, 99, 104, 110, 105, 99, 105, 97, 110>>
      [] key = "instrument" -> <<105, 110, 115, 116, 114, 117, 109, 101, 110, 116>>
      [] key = "test_voltage" -> <<116, 101, 115, 116, 95, 118, 111, 108, 116, 97, 103, 101>>
      [] key = "coupling" -> <<99, 111, 117, 112, 108, 105, 110, 103>>
      [] key = "ambient_temp" -> <<97, 109, 98, 105, 101, 110, 116, 95, 116, 101, 109, 112>>
      [] key = "measurement" -> <<109, 101, 97, 115, 117, 114, 101, 109, 101, 110, 116>>
      [] key = "frequencies" -> <<102, 114, 101, 113, 117, 101, 110, 99, 105, 101, 115>>
      [] key = "magnitudes" -> <<109, 97, 103, 110, 105, 116, 117, 100, 101, 115>>
      [] key = "phases" -> <<112, 104, 97, 115, 101, 115>>
      [] key = "unit" -> <<117, 110, 105, 116>>
      [] key = "phase_unit" -> <<112, 104, 97, 115, 101, 95, 117, 110, 105, 116>>
      [] key = "connection" -> <<99, 111, 110, 110, 101, 99, 116, 105, 111, 110>>
      [] key = "resolution" -> <<114, 101, 115, 111, 108, 117, 116, 105, 111, 110>>
      [] key = "freq_start" -> <<102, 114, 101, 113, 95, 115, 116, 97, 114, 116>>
      [] key = "freq_end" -> <<102, 114, 101, 113, 95, 101, 110, 100>>
      [] key = "raw_file" -> <<114, 97, 119, 95, 102, 105, 108, 101>>
      [] key = "filename" -> <<102, 105, 108, 101, 110, 97, 109, 101>>
      [] key = "vendor_name" -> <<118, 101, 110, 100, 111, 114, 95, 110, 97, 109, 101>>
      [] key = "original_format" -> <<111, 114, 105, 103, 105, 110, 97, 108, 95, 102, 111, 114, 109, 97, 116>>
      [] key = "file_size" -> <<102, 105, 108, 101, 95, 115, 105, 122, 101>>
      [] key = "parser_version" -> <<112, 97, 114, 115, 101, 114, 95, 118, 101, 114, 115, 105, 111, 110>>
      [] key = "freq" -> <<102, 114, 101, 113>>
      [] key = "mag" -> <<109, 97, 103>>
      [] key = "phase" -> <<112, 104, 97, 115, 101>>
      [] key = "magnitude_unit" -> <<109, 97, 103, 110, 105, 116, 117, 100, 101, 95, 117, 110, 105, 116>>
      [] key = "id" -> <<105, 100>>

\* the spelling of a word the records hold as a string
WordText(word) ==
    CASE word = "dB" -> <<100, 66>>
      [] word = "linear" -> <<108, 105, 110, 101, 97, 114>>
      [] word = "magnitude" -> <<109, 97, 103, 110, 105, 116, 117, 100, 101>>
      [] word = "degrees" -> <<100, 101, 103, 114, 101, 101, 115>>
      [] word = "capacitive" -> <<99, 97, 112, 97, 99, 105, 116, 105, 118, 101>>
      [] word = "generic" -> <<103, 101, 110, 101, 114, 105, 99>>
      [] word = "binary" -> <<98, 105, 110, 97, 114, 121>>
      [] word = "csv" -> <<99, 115, 118>>
      [] word = "xml" -> <<120, 109, 108>>
      [] word = "json" -> <<106, 115, 111, 110>>
      [] word = "1.0" -> <<49, 46, 48>>

\* what kind of value each key holds
KeyKind(key) ==
    IF key \in {"asset_metadata", "test_info", "measurement", "raw_file"} THEN "object"
    ELSE IF key \in {"frequencies", "magnitudes", "phases", "voltage_levels",
                     "freq", "mag", "phase"} THEN "list"
    ELSE IF key \in {"rating_MVA", "year_installed", "test_voltage", "ambient_temp",
                     "resolution", "freq_start", "freq_end", "file_size"} THEN "number"
    ELSE IF key \in {"unit", "magnitude_unit", "phase_unit", "coupling", "vendor_name",
                     "original_format", "parser_version"} THEN "word"
    ELSE "text"

\* sep.join(items)
Join(items, sep) ==
    Concat([i \in 1..Len(items) |-> IF i = 1 THEN items[i] ELSE sep \o items[i]])

\* the JSON text of an object
RECURSIVE JsonText(_)
JsonText(obj) ==
    LET keys == SelectSeq(JsonKeys, LAMBDA k : k \in DOMAIN obj)
        value(k) ==
            IF KeyKind(k) = "object" THEN JsonText(obj[k])
            ELSE IF KeyKind(k) = "list"
                 THEN <<91>> \o Join([i \in 1..Len(obj[k]) |-> Digits(obj[k][i])], <<44, 32>>)
                      \o <<93>>
            ELSE IF KeyKind(k) = "number" THEN Digits(obj[k])
            ELSE IF KeyKind(k) = "word" THEN JsonString(WordText(obj[k]))
            ELSE JsonString(obj[k])
    IN  <<123>>
        \o Join([i \in 1..Len(keys) |-> JsonString(KeyText(keys[i])) \o <<58, 32>> \o value(keys[i])],
                <<44, 32>>)
        \o <<125>>

\* a JSON file holding the object
JsonFile(obj) == [bytes |-> JsonText(obj), json |-> JsonData(obj), xml |-> NoXml]

\* the XML text of an element (texts and attribute values without markup
\* characters)
RECURSIVE XmlText(_)
XmlText(e) ==
    <<60>> \o e.tag
    \o (IF "value" \in DOMAIN e.attrib
        THEN <<32, 118, 97, 108, 117, 101, 61, 34>> \o e.attrib.value \o <<34>> ELSE <<>>)
    \o <<62>> \o e.text
    \o Concat([i \in 1..Len(e.children) |-> XmlText(e.children[i])])
    \o <<60, 47>> \o e.tag \o <<62>>

\* '<?xml version="1.0"?>' and a line end
XmlDeclaration ==
    <<60, 63, 120, 109, 108, 32, 118, 101, 114, 115, 105, 111, 110, 61, 34, 49, 46, 48, 34,
      63, 62, 10>>

\* an XML file holding the tree
XmlFile(root) ==
    [bytes |-> Utf8Encode(XmlDeclaration \o XmlText(root)), json |-> NoJson, xml |-> XmlTree(root)]

\* an element with text and no children / with children and no text
Leaf(tag, text) == [tag |-> tag, text |-> text, attrib |-> <<>>, children |-> <<>>]

Node(tag, children) == [tag |-> tag, text |-> <<>>, attrib |-> <<>>, children |-> children]

-----------------------------------------------------------------------------
(* The state machine: a directory of files, and calls on the adapter, the  *)
(* codecs and the parsers.  Calls are made one at a time: out is Idle      *)
(* between calls and holds the outcome of a call until the caller has      *)
(* taken it; the directory changes between calls.  arg is the last call of *)
(* an encoder: the record, the vendor and the path it was given.           *)

Idle == [op |-> "idle"]

NoRecord == [none |-> TRUE]

\* the largest number of files the directory holds
MaxFiles == 1

\* the environment stores a file under the path
PutFile(path, file) ==
    /\ out = Idle
    /\ path \in DOMAIN fs \/ Cardinality(DOMAIN fs) < MaxFiles
    /\ fs' = [p \in DOMAIN fs \cup {path} |-> IF p = path THEN file ELSE fs[p]]
    /\ UNCHANGED <<arg, out, db, now, pending>>

\* the environment removes the file
RemoveFile(path) ==
    /\ out = Idle
    /\ path \in DOMAIN fs
    /\ fs' = [p \in DOMAIN fs \ {path} |-> fs[p]]
    /\ UNCHANGED <<arg, out, db, now, pending>>

Called(op, path, result) == [op |-> op, path |-> path, result |-> result]

\* adapter.detect_file_format(path)
DetectFile(path) ==
    /\ out = Idle
    /\ out' = Called("detect_file_format", path, detect_file_format(fs, path))
    /\ UNCHANGED <<fs, arg, db, now, pending>>

\* adapter.parse_file(path)
ParseFile(path) ==
    /\ out = Idle
    /\ out' = Called("parse_file", path, parse_file(fs, path))
    /\ UNCHANGED <<fs, arg, db, now, pending>>

\* emulator.read_file(path)
ReadFile(path) ==
    /\ out = Idle
    /\ out' = Called("read_file", path, read_file(fs, path))
    /\ UNCHANGED <<fs, arg, db, now, pending>>

\* open(file_path, 'rb') of a decoder called on a missing file
NoSuchFile(vendor) == Via(Raise("FileNotFoundError", ""), Readers[vendor])

\* emulator.read_omicron_frx(path)
ReadOmicronFrx(path) ==
    /\ out = Idle
    /\ out' = Called("read_omicron_frx", path,
                     IF path \notin DOMAIN fs THEN NoSuchFile("omicron")
                     ELSE Via(read_omicron_frx(path, fs[path].bytes), "read_omicron_frx"))
    /\ UNCHANGED <<fs, arg, db, now, pending>>

\* emulator.read_doble_dbl(path)
ReadDobleDbl(path) ==
    /\ out = Idle
    /\ out' = Called("read_doble_dbl", path,
                     IF path \notin DOMAIN fs THEN NoSuchFile("doble")
                     ELSE Via(read_doble_dbl(path, fs[path].bytes), "read_doble_dbl"))
    /\ UNCHANGED <<fs, arg, db, now, pending>>

\* emulator.read_megger_meg(path)
ReadMeggerMeg(path) ==
    /\ out = Idle
    /\ out' = Called("read_megger_meg", path,
                     IF path \notin DOMAIN fs THEN NoSuchFile("megger")
                     ELSE Via(read_megger_meg(path, fs[path].bytes), "read_megger_meg"))
    /\ UNCHANGED <<fs, arg, db, now, pending>>

\* emulator.read_newtons4th_n4f(path)
ReadNewtons4thN4f(path) ==
    /\ out = Idle
    /\ out' = Called("read_newtons4th_n4f", path,
                     IF path \notin DOMAIN fs THEN NoSuchFile("newtons4th")
                     ELSE Via(read_newtons4th_n4f(path, fs[path].bytes), "read_newtons4th_n4f"))
    /\ UNCHANGED <<fs, arg, db, now, pending>>

\* csv_parser.parse_file(path)
CsvParseFile(path) ==
    /\ out = Idle
    /\ out' = Called("csv_parser.parse_file", path,
                     IF path \notin DOMAIN fs THEN Raise("FileNotFoundError", "CSV file not found")
                     ELSE csv_parse_file(path, fs[path].bytes))
    /\ UNCHANGED <<fs, arg, db, now, pending>>

\* xml_parser.parse_file(path)
XmlParseFile(path) ==
    /\ out = Idle
    /\ out' = Called("xml_parser.parse_file", path,
                     IF path \notin DOMAIN fs THEN Raise("FileNotFoundError", "XML file not found")
                     ELSE xml_parse_file(path, fs[path].bytes, fs[path].xml))
    /\ UNCHANGED <<fs, arg, db, now, pending>>

\* adapter.validate_canonical_data(record), on the record the last call
\* returned
Validate ==
    /\ out.op \in {"parse_file", "read_file", "csv_parser.parse_file", "xml_parser.parse_file"}
    /\ out.result.status = "ok"
    /\ out' = [op |-> "validate_canonical_data", path |-> out.path, from |-> out.op,
               data |-> out.result.rec, valid |-> validate_canonical_data(out.result.rec)]
    /\ UNCHANGED <<fs, arg, db, now, pending>>

\* emulator.write_file(record, vendor, path): the file holds what was
\* written even when the call raises
WriteFile(cd, vendor, path) ==
    /\ out = Idle
    /\ path \in DOMAIN fs \/ Cardinality(DOMAIN fs) < MaxFiles
    /\ LET w == write_file(cd, vendor)
       IN  /\ fs' = [p \in DOMAIN fs \cup {path} |->
                       IF p = path THEN BytesFile(w.bytes) ELSE fs[p]]
           /\ out' = [op |-> "write_file", path |-> path, vendor |-> vendor,
                      raised |-> w.raised]
    /\ arg' = [cd |-> cd, vendor |-> vendor, path |-> path]
    /\ UNCHANGED <<db, now, pending>>

\* the caller takes the outcome of the call
Return ==
    /\ out # Idle
    /\ out' = Idle
    /\ UNCHANGED <<fs, arg, db, now, pending>>

\* the collections of the database of the backend, without documents
NoDocuments ==
    [users |-> {}, user_sessions |-> {}, fra_uploads |-> {}, fra_analyses |-> {},
     password_reset_otps |-> {}]

Init ==
    /\ fs = <<>>
    /\ arg = NoRecord
    /\ out = Idle
    /\ db = NoDocuments
    /\ now = 0
    /\ pending = <<>>

-----------------------------------------------------------------------------
(* Specification Spec: format detection and routing.                       *)

\* 'x.frx', 'X.FRX', 'd.dbl', 'm.meg', 'n.n4f', 't.csv', 't.txt', 'a.xml', 'j.json', 'data', 'f.bin'
Paths ==
    {<<120, 46, 102, 114, 120>>,
     <<88, 46, 70, 82, 88>>,
     <<100, 46, 100, 98, 108>>,
     <<109, 46, 109, 101, 103>>,
     <<110, 46, 110, 52, 102>>,
     <<116, 46, 99, 115, 118>>,
     <<116, 46, 116, 120, 116>>,
     <<97, 46, 120, 109, 108>>,
     <<106, 46, 106, 115, 111, 110>>,
     <<100, 97, 116, 97>>,
     <<102, 46, 98, 105, 110>>}

\* a record with one point
SampleRecord ==
    [asset_metadata |->
       [asset_id |-> <<84, 82, 49>>, manufacturer |-> <<65, 66, 66>>,
        model |-> <<88, 57>>, rating_MVA |-> 500],
     test_info |-> [test_id |-> <<84, 49>>, test_voltage |-> 1200, ambient_temp |-> 23],
     measurement |->
       [frequencies |-> <<20000>>, magnitudes |-> <<-45>>, phases |-> <<5>>,
        unit |-> "dB", connection |-> DefaultConnection, resolution |-> 1,
        freq_start |-> 20000, freq_end |-> 20000]]

\* the bytes each encoder writes for the sample record
SampleBytes == [k \in 1..Len(Vendors) |-> write_file(SampleRecord, Vendors[k]).bytes]

\* how many lengths of zero padding are put before a vendor file
MaxPad == 2

\* the vendor files as written, and behind 40, 80, ... zero bytes
VendorFiles ==
    {BytesFile(Zeros(40 * n) \o SampleBytes[k]) : k \in 1..Len(Vendors), n \in 0..MaxPad}

\* files that hold the short signature the detector looks for, without the
\* full signature the decoders look for
ShortSignatureFiles ==
    {BytesFile(binary_signatures[k].signature \o Zeros(80)) : k \in 1..Len(binary_signatures)}

\* the bytes each decoder reads as the header that holds the signature
SignatureSlot == [omicron |-> 64, doble |-> 32, megger |-> 48, newtons4th |-> 32]

\* the vendor files with the signature moved 8 bytes into its slot: every
\* field after the slot is where the decoder reads it
ShiftedSignatureFiles ==
    {BytesFile(PackS(Zeros(8) \o vendor_signatures[Vendors[k]], SignatureSlot[Vendors[k]])
               \o Drop(SampleBytes[k], SignatureSlot[Vendors[k]])) : k \in 1..Len(Vendors)}

\* a Doble file whose asset id is 'OMICRON_FRX'
DobleNamedOmicron ==
    BytesFile(write_file([SampleRecord EXCEPT !.asset_metadata.asset_id = ShortSigOmicron],
                         "doble").bytes)

\* 'freq,mag' and two rows
SmallCsv ==
    BytesFile(<<102, 114, 101, 113, 44, 109, 97, 103, 10, 49, 44, 50, 10, 51, 44, 52, 10>>)

SmallJson == JsonFile([freq |-> <<1, 2>>, mag |-> <<3, 4>>])

SmallXml ==
    XmlFile(Node(<<70, 82, 65>>,
                 <<Node(<<68, 97, 116, 97>>,
                        <<Node(<<80, 111, 105, 110, 116>>,
                               <<Leaf(<<70>>, <<49>>), Leaf(<<77, 97, 103>>, <<50>>)>>)>>)>>))

\* no bytes; bytes that are not text
OtherFiles == {BytesFile(<<>>), BytesFile(<<255, 254, 0, 1>>)}

Files ==
    VendorFiles \cup ShortSignatureFiles \cup ShiftedSignatureFiles \cup OtherFiles
    \cup {DobleNamedOmicron, SmallCsv, SmallJson, SmallXml}

Next ==
    \/ \E path \in Paths, file \in Files : PutFile(path, file)
    \/ \E path \in Paths : RemoveFile(path)
    \/ \E path \in Paths : DetectFile(path)
    \/ \E path \in Paths : ParseFile(path)
    \/ \E path \in Paths : ReadFile(path)
    \/ \E path \in Paths : ReadOmicronFrx(path)
    \/ \E path \in Paths : ReadDobleDbl(path)
    \/ \E path \in Paths : ReadMeggerMeg(path)
    \/ \E path \in Paths : ReadNewtons4thN4f(path)
    \/ Return

Spec == Init /\ [][Next]_vars

\* the file a finished call was made on (the directory does not change
\* while the outcome of a call is held)
CalledOn(ops) == out.op \in ops /\ out.path \in DOMAIN fs

\* the lower-cased suffix of the path of the call
CalledSuffix == Lower(Suffix(out.path))

\* C1: detection decides by the extension first.  For an existing path
\* whose lower-cased suffix is in the table, detect_file_format returns the
\* tag of the table whatever the file holds, parse_file routes by that tag,
\* and a path that ends in .frx is handed to the Omicron decoder.
C1_ExtensionDecides ==
    /\ \A ext \in DOMAIN extension_map :
          CalledOn({"detect_file_format"}) /\ CalledSuffix = ext
             => out.result = Detected(extension_map[ext])
    /\ \A ext \in DOMAIN extension_map :
          CalledOn({"parse_file"}) /\ CalledSuffix = ext
             => out.result.format = extension_map[ext]
    /\ CalledOn({"parse_file"}) /\ CalledSuffix = ExtFrx
          => out.result.via = "read_omicron_frx"

\* C1 witness: X.FRX holds a well-formed Doble file, and parse_file has
\* handed it to the Omicron decoder, which rejected it
C1_Witness ==
    /\ CalledOn({"parse_file"})
    /\ out.path = <<88, 46, 70, 82, 88>>
    /\ fs[out.path].bytes = SampleBytes[2]
    /\ out.result.via = "read_omicron_frx"
    /\ out.result.status = "error"

\* C2 (as claimed): an existing file without a recognised extension whose
\* first 1024 bytes hold DOBLE_M4000 is routed by parse_file to the Doble
\* decoder, wherever in that window the signature is
C2_SignatureRoutesToDoble ==
    ( /\ CalledOn({"parse_file"})
      /\ CalledSuffix \notin DOMAIN extension_map
      /\ Contains(Rd(fs[out.path].bytes, 0, 1024), ShortSigDoble) )
    => out.result.via = "read_doble_dbl"

\* C5: a decoder raises, and returns no record, whenever the file does not
\* begin with the full signature of its vendor, whether the decoder was
\* called directly or reached through read_file or parse_file
C5_SignatureRequired ==
    \A k \in 1..Len(Vendors) :
        ( /\ CalledOn({Readers[Vendors[k]], "read_file", "parse_file"})
          /\ out.result.via = Readers[Vendors[k]]
          /\ ~StartsWith(fs[out.path].bytes, vendor_signatures[Vendors[k]]) )
        => /\ out.result.status = "error"
           /\ "rec" \notin DOMAIN out.result

\* C5 witness: a Doble file whose signature starts at byte 8 of the header,
\* under a .dbl name, was routed to the Doble decoder by parse_file and
\* rejected for its signature
C5_Witness ==
    /\ CalledOn({"parse_file"})
    /\ CalledSuffix = ExtDbl
    /\ fs[out.path].bytes # SampleBytes[2]
    /\ Contains(Rd(fs[out.path].bytes, 0, 32), SigDoble)
    /\ out.result.via = "read_doble_dbl"
    /\ out.result.status = "error"
    /\ out.result.cause = "ValueError"

-----------------------------------------------------------------------------
(* Specification SpecCodec: records written by the encoders and read back. *)

\* 31 letters and then a two-byte character: the 32nd byte of the encoded
\* id is the first byte of U+00E9
StraddlingId == Rep(65, 31) \o <<233>>

\* 'TR_TEST_001'; 40 letters; the id whose last character straddles byte 32
AssetIds == {<<84, 82, 95, 84, 69, 83, 84, 95, 48, 48, 49>>, Rep(66, 40), StraddlingId}

\* one point; three points, the last frequency beyond the integers that
\* binary32 holds exactly; two points without a phase list
Measurements ==
    {SampleRecord.measurement,
     [frequencies |-> <<20000, 500000, 20000001>>, magnitudes |-> <<-45, -12, -70>>,
      phases |-> <<5, -90, 170>>, unit |-> "dB", connection |-> DefaultConnection,
      resolution |-> 3, freq_start |-> 20000, freq_end |-> 20000001],
     [frequencies |-> <<20000, 10000000>>, magnitudes |-> <<-3, -60>>,
      unit |-> "dB", connection |-> DefaultConnection,
      resolution |-> 2, freq_start |-> 20000, freq_end |-> 10000000]}

\* the sample record with the connection 'H1-H2-X' + U+00E9, which is 9
\* bytes long
LongConnectionRecord ==
    [SampleRecord EXCEPT !.measurement.connection = <<72, 49, 45, 72, 50, 45, 88, 233>>]

CodecRecords ==
    {[SampleRecord EXCEPT !.asset_metadata.asset_id = a, !.measurement = m] :
        a \in AssetIds, m \in Measurements}
    \cup {LongConnectionRecord}

\* 'data'
PathData == <<100, 97, 116, 97>>

\* each vendor's file is written under a name with the vendor's extension
\* ('out' + extension) or under the name without extension
CodecTargets ==
    {<<Vendors[k], <<111, 117, 116>> \o format_extensions[Vendors[k]]>> : k \in 1..Len(Vendors)}
    \cup {<<Vendors[k], PathData>> : k \in 1..Len(Vendors)}

CodecPaths == {t[2] : t \in CodecTargets}

NextCodec ==
    \/ \E cd \in CodecRecords, t \in CodecTargets : WriteFile(cd, t[1], t[2])
    \/ \E path \in CodecPaths : ReadFile(path)
    \/ Return

SpecCodec == Init /\ [][NextCodec]_vars

\* the last encoder call wrote the file the finished read_file call read:
\* the vendor's encoder, given arg.cd, wrote the file at out.path
ReadBack(vendor) ==
    /\ CalledOn({"read_file"})
    /\ arg # NoRecord
    /\ arg.vendor = vendor
    /\ arg.path = out.path

\* the longest prefix of the text whose UTF-8 encoding fits n bytes
TruncatedTo(text, n) ==
    LET fits == {k \in 0..Len(text) : Len(Utf8Encode(SubSeq(text, 1, k))) <= n}
    IN  SubSeq(text, 1, CHOOSE k \in fits : \A j \in fits : j <= k)

\* the values as a binary32 field holds them
AsF32(xs) == [i \in 1..Len(xs) |-> F32Value(F32Bits(xs[i]))]

\* bitwise exclusive or of two bit strings of one length
BitXor(a, b) == <<>> \o [i \in 1..Len(a) |-> (a[i] + b[i]) % 2]

\* the CRC-32 polynomial 0xEDB88320, most significant bit first
Crc32Poly == BytesToBits(<<237, 184, 131, 32>>)

\* one bit of the reflected CRC-32: shift right, and xor the polynomial in
\* when the bit shifted out was set
Crc32Shift(r) ==
    IF r[32] = 1 THEN BitXor(<<0>> \o SubSeq(r, 1, 31), Crc32Poly)
    ELSE <<0>> \o SubSeq(r, 1, 31)

\* the register after the byte c
Crc32Byte(r, c) ==
    LET r0 == BitXor(r, Zeros(24) \o Bits(c, 8))
    IN  Crc32Shift(Crc32Shift(Crc32Shift(Crc32Shift(
            Crc32Shift(Crc32Shift(Crc32Shift(Crc32Shift(r0))))))))

\* the register r after the bytes b[lo..hi], halving the range
RECURSIVE Crc32Range(_, _, _, _)
Crc32Range(r, b, lo, hi) ==
    IF Len(r) # 32 \/ lo > hi THEN r
    ELSE IF lo = hi THEN Crc32Byte(r, b[lo])
    ELSE Crc32Range(Crc32Range(r, b, lo, (lo + hi) \div 2), b, (lo + hi) \div 2 + 1, hi)

\* zlib.crc32(b) & 0xffffffff packed '<I'
Crc32LE(b) == Reverse(BitsToBytes(BitXor(Crc32Range(Rep(1, 32), b, 1, Len(b)), Rep(1, 32))))

\* the file ends with the CRC-32 of all the bytes before it
EndsWithCrc32(b) ==
    /\ Len(b) >= 4
    /\ Drop(b, Len(b) - 4) = Crc32LE(Take(b, Len(b) - 4))

\* C3 (as claimed): writing an Omicron file succeeds and the file ends with
\* the 4-byte CRC-32 of all preceding bytes; reading it back with read_file
\* succeeds and gives the asset id (as far as the 32-byte slot holds it),
\* the number of points, the frequencies, and the magnitudes as binary32
\* holds them, in the same order
C3_OmicronRoundTrip ==
    /\ (out.op = "write_file" /\ out.vendor = "omicron")
          => /\ out.raised = ""
             /\ EndsWithCrc32(fs[out.path].bytes)
    /\ ReadBack("omicron")
          => /\ out.result.status = "ok"
             /\ out.result.rec.asset_metadata.asset_id
                   = TruncatedTo(arg.cd.asset_metadata.asset_id, 32)
             /\ out.result.rec.measurement.resolution = Len(arg.cd.measurement.frequencies)
             /\ out.result.rec.measurement.frequencies = arg.cd.measurement.frequencies
             /\ out.result.rec.measurement.magnitudes = AsF32(arg.cd.measurement.magnitudes)

\* what read_file is to return for the file the Doble encoder wrote
DobleReadBack(cd, rec) ==
    /\ rec.asset_metadata.asset_id = TruncatedTo(cd.asset_metadata.asset_id, 32)
    /\ rec.measurement.resolution = Len(cd.measurement.frequencies)
    /\ rec.measurement.frequencies = cd.measurement.frequencies
    /\ rec.measurement.magnitudes = cd.measurement.magnitudes
    /\ rec.measurement.phases = PhasesOrZeros(cd.measurement)
    /\ rec.test_info.test_voltage = F32Value(F32Bits(cd.test_info.test_voltage))
    /\ rec.measurement.freq_start = cd.measurement.freq_start
    /\ rec.measurement.freq_end = cd.measurement.freq_end

\* what read_file is to return for the file the Megger encoder wrote
MeggerReadBack(cd, rec) ==
    /\ rec.asset_metadata.asset_id = TruncatedTo(cd.asset_metadata.asset_id, 31)
    /\ rec.asset_metadata.manufacturer = TruncatedTo(cd.asset_metadata.manufacturer, 31)
    /\ rec.measurement.resolution = Len(cd.measurement.frequencies)
    /\ rec.measurement.frequencies = AsF32(cd.measurement.frequencies)
    /\ rec.measurement.magnitudes = AsF32(cd.measurement.magnitudes)
    /\ rec.measurement.phases = AsF32(PhasesOrZeros(cd.measurement))
    /\ rec.test_info.test_voltage = F32Value(F32Bits(cd.test_info.test_voltage))

\* what read_file is to return for the file the Newtons4th encoder wrote
Newtons4thReadBack(cd, rec) ==
    /\ rec.asset_metadata.asset_id = cd.asset_metadata.asset_id
    /\ rec.asset_metadata.manufacturer = cd.asset_metadata.manufacturer
    /\ rec.measurement.resolution = Len(cd.measurement.frequencies)
    /\ rec.measurement.frequencies = cd.measurement.frequencies
    /\ rec.measurement.magnitudes = cd.measurement.magnitudes
    /\ rec.measurement.phases = PhasesOrZeros(cd.measurement)
    /\ rec.test_info.test_voltage = F32Value(F32Bits(cd.test_info.test_voltage))
    /\ rec.measurement.freq_start = cd.measurement.freq_start
    /\ rec.measurement.freq_end = cd.measurement.freq_end
    /\ rec.measurement.connection
          = TruncatedTo(Get(cd.measurement, "connection", DefaultConnection), 8)

\* C4 (as claimed): for the Doble, Megger and Newtons4th codecs and every
\* record with at least one point, write_file followed by read_file returns
\* a record with the asset id cut to its slot, the same number of points,
\* the same frequencies, magnitudes and phases in order (as the stored width
\* holds them), and the other stored fields
C4_CodecRoundTrip ==
    /\ ReadBack("doble")
          => /\ out.result.status = "ok"
             /\ DobleReadBack(arg.cd, out.result.rec)
    /\ ReadBack("megger")
          => /\ out.result.status = "ok"
             /\ MeggerReadBack(arg.cd, out.result.rec)
    /\ ReadBack("newtons4th")
          => /\ out.result.status = "ok"
             /\ Newtons4thReadBack(arg.cd, out.result.rec)

-----------------------------------------------------------------------------
(* Specification SpecText: CSV, XML and JSON files, parsed and validated.  *)
(* The files are written from descriptions: how many well-formed rows or   *)
(* points a file has, which malformed row it has, its comment line.        *)

\* the comment lines the CSV files carry, as key, value and the number the
\* value holds (-1 when it holds none)
HeaderComments ==
    <<
      \* 'Manufacturer: ABB'
      [key |-> <<77, 97, 110, 117, 102, 97, 99, 116, 117, 114, 101, 114>>,
       val |-> <<65, 66, 66>>, num |-> -1],
      \* 'Transformer Model: X9'
      [key |-> <<84, 114, 97, 110, 115, 102, 111, 114, 109, 101, 114, 32, 77, 111, 100, 101, 108>>,
       val |-> <<88, 57>>, num |-> -1],
      \* 'Transformer: TX7'
      [key |-> <<84, 114, 97, 110, 115, 102, 111, 114, 109, 101, 114>>,
       val |-> <<84, 88, 55>>, num |-> -1],
      \* 'Asset ID: TR1'
      [key |-> <<65, 115, 115, 101, 116, 32, 73, 68>>,
       val |-> <<84, 82, 49>>, num |-> -1],
      \* 'Model ID: M5'
      [key |-> <<77, 111, 100, 101, 108, 32, 73, 68>>,
       val |-> <<77, 53>>, num |-> -1],
      \* 'Make: GE'
      [key |-> <<77, 97, 107, 101>>,
       val |-> <<71, 69>>, num |-> -1],
      \* 'Device Make: GE2'
      [key |-> <<68, 101, 118, 105, 99, 101, 32, 77, 97, 107, 101>>,
       val |-> <<71, 69, 50>>, num |-> -1],
      \* 'Model: X9'
      [key |-> <<77, 111, 100, 101, 108>>,
       val |-> <<88, 57>>, num |-> -1],
      \* 'Rating: 500 MVA'
      [key |-> <<82, 97, 116, 105, 110, 103>>,
       val |-> <<53, 48, 48, 32, 77, 86, 65>>, num |-> 500],
      \* 'Instrument Rating: high'
      [key |-> <<73, 110, 115, 116, 114, 117, 109, 101, 110, 116, 32, 82, 97, 116, 105, 110, 103>>,
       val |-> <<104, 105, 103, 104>>, num |-> -1],
      \* 'Test Date: 2024-01-15'
      [key |-> <<84, 101, 115, 116, 32, 68, 97, 116, 101>>,
       val |-> <<50, 48, 50, 52, 45, 48, 49, 45, 49, 53>>, num |-> -1],
      \* 'Instrument: FRAX'
      [key |-> <<73, 110, 115, 116, 114, 117, 109, 101, 110, 116>>,
       val |-> <<70, 82, 65, 88>>, num |-> -1],
      \* 'Device: M4000'
      [key |-> <<68, 101, 118, 105, 99, 101>>,
       val |-> <<77, 52, 48, 48, 48>>, num |-> -1],
      \* 'Test Voltage: 1200 V'
      [key |-> <<84, 101, 115, 116, 32, 86, 111, 108, 116, 97, 103, 101>>,
       val |-> <<49, 50, 48, 48, 32, 86>>, num |-> 1200],
      \* 'Voltage: 10'
      [key |-> <<86, 111, 108, 116, 97, 103, 101>>,
       val |-> <<49, 48>>, num |-> 10],
      \* 'Notes: none'
      [key |-> <<78, 111, 116, 101, 115>>,
       val |-> <<110, 111, 110, 101>>, num |-> -1]>>

\* a CSV file: pad comment lines without a colon, then comment number
\* `comment` of HeaderComments (0 for none), a header row, and n well-formed
\* rows with one malformed row of kind `bad` after the first of them
CsvDoc(pad, comment, n, bad, order, cols, mags) ==
    [pad |-> pad, comment |-> comment, n |-> n, bad |-> bad, order |-> order,
     cols |-> cols, mags |-> mags]

\* the frequency of the i-th well-formed row: ascending; descending; the
\* first repeated; or 20 kHz to 12 MHz in 20 steps
RowFreq(d, i) ==
    IF d.order = "desc" THEN 100 * (d.n + 1 - i)
    ELSE IF d.order = "dup" THEN 100 * Max(i - 1, 1)
    ELSE IF d.order = "span" THEN 20000 + 630000 * (i - 1)
    ELSE 100 * i

\* its magnitude: below -20 dB, or a linear ratio 0..9
RowMag(d, i) == IF d.mags = "linear" THEN i % 10 ELSE -(20 + i)

RowPhase(i) == 5 * i

\* the i-th well-formed row
GoodRow(d, i) ==
    Digits(RowFreq(d, i)) \o <<44>> \o Digits(RowMag(d, i))
    \o (IF d.cols = 3 THEN <<44>> \o Digits(RowPhase(i)) ELSE <<>>) \o <<10>>

\* the malformed row: 'x' for the frequency, the magnitude or the phase, a
\* row of one field, or a blank line
BadRow(d) ==
    CASE d.bad = "none" -> <<>>
      [] d.bad = "freq" -> <<120, 44, 45, 51, 48>> \o (IF d.cols = 3 THEN <<44, 55>> ELSE <<>>) \o <<10>>
      [] d.bad = "mag" -> <<57, 53, 48, 44, 120, 44, 55, 10>>
      [] d.bad = "phase" -> <<57, 53, 48, 44, 45, 51, 48, 44, 120, 10>>
      [] d.bad = "short" -> <<57, 53, 48, 10>>
      [] d.bad = "blank" -> <<10>>

\* '# ' + key + ': ' + value
CommentLine(c) == <<35, 32>> \o c.key \o <<58, 32>> \o c.val \o <<10>>

\* 'freq,mag,phase' or 'freq,mag'
HeaderRow(cols) ==
    <<102, 114, 101, 113, 44, 109, 97, 103>>
    \o (IF cols = 3 THEN <<44, 112, 104, 97, 115, 101>> ELSE <<>>) \o <<10>>

\* the text of the file ('# note' is a comment line without a colon)
CsvDocText(d) ==
    Concat([k \in 1..d.pad |-> <<35, 32, 110, 111, 116, 101, 10>>])
    \o (IF d.comment = 0 THEN <<>> ELSE CommentLine(HeaderComments[d.comment]))
    \o HeaderRow(d.cols)
    \o GoodRow(d, 1)
    \o BadRow(d)
    \o Concat([i \in 1..(d.n - 1) |-> GoodRow(d, i + 1)])

CsvFile(d) == BytesFile(Utf8Encode(CsvDocText(d)))

\* the numbers of well-formed rows around the minimum of 10
RowCounts == {9, 10, 11}

\* the CSV files: every kind of malformed row with each number of rows;
\* two columns; frequencies out of order and repeated; linear magnitudes;
\* each comment line; a comment line after 20 other lines; the comment
\* '# Manufacturer: ABB' with 20 rows
CsvDocs ==
    {CsvDoc(0, 0, n, bad, "asc", 3, "db") :
        n \in RowCounts, bad \in {"none", "freq", "mag", "phase", "short", "blank"}}
    \cup {CsvDoc(0, 0, n, bad, "asc", 2, "db") : n \in {9, 10}, bad \in {"none", "freq"}}
    \cup {CsvDoc(0, 0, 10, "none", order, 3, "db") : order \in {"desc", "dup"}}
    \cup {CsvDoc(0, 0, 10, "none", "asc", 3, "linear")}
    \cup {CsvDoc(0, c, 10, "none", "asc", 3, "db") : c \in 1..Len(HeaderComments)}
    \cup {CsvDoc(20, 1, 10, "none", "asc", 3, "db")}
    \cup {CsvDoc(0, 1, 20, "none", "span", 3, "db")}

\* an XML file: a Data element with n well-formed Point elements (F, Mag
\* and Deg children) and one malformed point of kind `bad` after the first
XmlDoc(n, bad, order) == [n |-> n, bad |-> bad, order |-> order, mags |-> "db"]

XmlPoint(f, m, p) ==
    Node(<<80, 111, 105, 110, 116>>,
         <<Leaf(<<70>>, f), Leaf(<<77, 97, 103>>, m)>>
         \o (IF p = <<>> THEN <<>> ELSE <<Leaf(<<68, 101, 103>>, p)>>))

\* the malformed point: 'x' for the frequency or the phase, or no phase
\* element at all
XmlBadPoint(d) ==
    CASE d.bad = "none" -> <<>>
      [] d.bad = "freq" -> <<XmlPoint(<<120>>, Digits(-30), Digits(7))>>
      [] d.bad = "phase" -> <<XmlPoint(Digits(950), Digits(-30), <<120>>)>>
      [] d.bad = "nophase" -> <<XmlPoint(Digits(950), Digits(-30), <<>>)>>

XmlGoodPoint(d, i) == XmlPoint(Digits(RowFreq(d, i)), Digits(RowMag(d, i)), Digits(RowPhase(i)))

\* <FRA><Data> points </Data></FRA>
XmlRoot(d) ==
    Node(<<70, 82, 65>>,
         <<Node(<<68, 97, 116, 97>>,
                <<XmlGoodPoint(d, 1)>> \o XmlBadPoint(d)
                \o [i \in 1..(d.n - 1) |-> XmlGoodPoint(d, i + 1)])>>)

XmlDocs ==
    {XmlDoc(n, bad, "asc") : n \in {9, 10}, bad \in {"none", "freq", "phase", "nophase"}}
    \cup {XmlDoc(10, "none", "desc")}

\* a JSON file: a generic object (freq and mag lists of n and nm numbers,
\* and the unit keys that are not "") or a canonical record
JsonDoc(shape, n, nm, order, unit, magnitude_unit) ==
    [shape |-> shape, n |-> n, nm |-> nm, order |-> order, unit |-> unit,
     magnitude_unit |-> magnitude_unit]

JsonFrequencies(d) == [i \in 1..d.n |-> RowFreq(d, i)]

JsonMagnitudes(d) == [i \in 1..d.nm |-> -(20 + i)]

\* the members that are there only when the description names them
JsonUnit(d) == IF d.unit = "" THEN <<>> ELSE [unit |-> d.unit]

JsonMagnitudeUnit(d) ==
    IF d.magnitude_unit = "" THEN <<>> ELSE [magnitude_unit |-> d.magnitude_unit]

JsonObject(d) ==
    IF d.shape = "generic"
    THEN [freq |-> JsonFrequencies(d), mag |-> JsonMagnitudes(d)]
         @@ JsonUnit(d) @@ JsonMagnitudeUnit(d)
    ELSE [asset_metadata |->
            [asset_id |-> <<84, 82, 49>>, manufacturer |-> <<65, 66, 66>>, model |-> <<88, 57>>, rating_MVA |-> 500],
          test_info |->
            [test_id |-> <<84, 49>>, date |-> <<50, 48, 50, 52, 45, 48, 49, 45, 49, 53>>, instrument |-> <<70, 82, 65, 88>>, test_voltage |-> 1200],
          measurement |->
            [frequencies |-> JsonFrequencies(d), magnitudes |-> JsonMagnitudes(d),
             unit |-> d.unit],
          raw_file |-> [filename |-> <<106, 46, 106, 115, 111, 110>>]]

\* generic objects with each combination of unit keys, with 5 points, with
\* 10 frequencies and 9 magnitudes, with descending frequencies; canonical
\* records in dB and in linear units, and one of 5 points
JsonDocs ==
    {JsonDoc("generic", 10, 10, "asc", unit, magnitude_unit) :
        unit \in {"", "dB", "linear"}, magnitude_unit \in {"", "linear"}}
    \cup {JsonDoc("generic", 5, 5, "asc", "", ""),
          JsonDoc("generic", 10, 9, "asc", "", ""),
          JsonDoc("generic", 10, 10, "desc", "", "")}
    \cup {JsonDoc("canonical", 10, 10, "asc", unit, "") : unit \in {"dB", "linear"}}
    \cup {JsonDoc("canonical", 5, 5, "asc", "dB", "")}

\* 't.csv', 'a.xml', 'j.json'
PathCsv == <<116, 46, 99, 115, 118>>

PathXml == <<97, 46, 120, 109, 108>>

PathJson == <<106, 46, 106, 115, 111, 110>>

TextPaths == {PathCsv, PathXml, PathJson, PathData}

\* the file of each description
CsvFiles == [d \in CsvDocs |-> CsvFile(d)]
XmlFiles == [d \in XmlDocs |-> XmlFile(XmlRoot(d))]
JsonFiles == [d \in JsonDocs |-> JsonFile(JsonObject(d))]

\* a CSV file without a header row: its first line is a data row
\* ('50,-20,2') or holds names that match no header keyword ('x,y,z'), and
\* n well-formed rows follow
HeaderlessDoc(first, n) ==
    [first |-> first, n |-> n, order |-> "asc", cols |-> 3, mags |-> "db"]

FirstLine(d) ==
    IF d.first = "row" THEN <<53, 48, 44, 45, 50, 48, 44, 50, 10>>
    ELSE <<120, 44, 121, 44, 122, 10>>

HeaderlessText(d) == FirstLine(d) \o Concat([i \in 1..d.n |-> GoodRow(d, i)])

HeaderlessDocs == {HeaderlessDoc(first, n) : first \in {"row", "names"}, n \in {9, 10}}

HeaderlessFiles == [d \in HeaderlessDocs |-> BytesFile(Utf8Encode(HeaderlessText(d)))]

\* the CSV and XML files that are also stored under the name without
\* extension: those of 10 rows or points with three columns and no comment
CsvDataDocs == {d \in CsvDocs : d.n = 10 /\ d.comment = 0 /\ d.cols = 3}
XmlDataDocs == {d \in XmlDocs : d.n = 10}

\* each file is stored under a name with the extension of its format; the
\* files of CsvDataDocs and XmlDataDocs, the JSON files and the vendor files
\* of SampleBytes under the name without extension
TextTargets ==
    {<<PathCsv, CsvFiles[d]>> : d \in CsvDocs}
    \cup {<<PathCsv, HeaderlessFiles[d]>> : d \in HeaderlessDocs}
    \cup {<<PathData, CsvFiles[d]>> : d \in CsvDataDocs}
    \cup {<<PathXml, XmlFiles[d]>> : d \in XmlDocs}
    \cup {<<PathData, XmlFiles[d]>> : d \in XmlDataDocs}
    \cup {<<path, JsonFiles[d]>> : path \in {PathJson, PathData}, d \in JsonDocs}
    \cup {<<PathData, BytesFile(SampleBytes[k])>> : k \in 1..Len(Vendors)}

NextText ==
    \/ \E t \in TextTargets : PutFile(t[1], t[2])
    \/ \E path \in TextPaths : ParseFile(path)
    \/ \E path \in TextPaths : CsvParseFile(path)
    \/ \E path \in TextPaths : XmlParseFile(path)
    \/ Validate
    \/ Return

SpecText == Init /\ [][NextText]_vars

\* the finished call was made on this file
CalledOnFile(ops, file) == CalledOn(ops) /\ fs[out.path] = file

\* the record a finished parser call returned
Returned(ops) == CalledOn(ops) /\ out.result.status = "ok"

\* validate_canonical_data has returned True
Validated == out.op = "validate_canonical_data" /\ out.valid

StrictlyIncreasing(xs) == \A i \in 1..(Len(xs) - 1) : xs[i] < xs[i + 1]

C7_EqualLengths ==
    /\ ( /\ Returned({"csv_parser.parse_file", "xml_parser.parse_file"})
         /\ "phases" \in DOMAIN out.result.rec.measurement )
       => /\ Len(out.result.rec.measurement.frequencies)
                = Len(out.result.rec.measurement.magnitudes)
          /\ Len(out.result.rec.measurement.frequencies)
                = Len(out.result.rec.measurement.phases)
    /\ \A d \in CsvDocs :
          (Returned({"csv_parser.parse_file"}) /\ fs[out.path] = CsvFiles[d])
          => Len(out.result.rec.measurement.frequencies) = d.n
    /\ \A d \in XmlDocs :
          (Returned({"xml_parser.parse_file"}) /\ fs[out.path] = XmlFiles[d])
          => Len(out.result.rec.measurement.frequencies) = d.n

\* C8 (as claimed): CSVParser.parse_file succeeds exactly when the file
\* holds at least 10 well-formed data rows, and fails with the
\* insufficient-data error otherwise
C8_TenValidRows ==
    \A d \in CsvDocs :
        CalledOnFile({"csv_parser.parse_file"}, CsvFiles[d])
        => IF d.n >= 10 THEN out.result.status = "ok"
           ELSE /\ out.result.status = "error"
                /\ out.result.msg = "Insufficient valid data points (minimum 10 required)"

\* the field the priority list gives a lower-cased key, "" for none; the
\* first rule looks for the words asset_words
ListedField(key, asset_words) ==
    IF \E w \in asset_words : Contains(key, w) THEN "asset_id"
    ELSE IF Contains(key, KwManufacturer) \/ Contains(key, KwMake) THEN "manufacturer"
    ELSE IF Contains(key, KwModel) THEN "model"
    ELSE IF Contains(key, KwMva) \/ Contains(key, KwRating) THEN "rating_MVA"
    ELSE IF Contains(key, KwDate) THEN "test_date"
    ELSE IF Contains(key, KwInstrument) \/ Contains(key, KwDevice) THEN "instrument"
    ELSE IF Contains(key, KwVoltage) /\ Contains(key, KwTest) THEN "test_voltage"
    ELSE ""

\* the metadata of a record when the comment c sets the field: the value of
\* the comment in that field (the number the value holds for a number
\* field), the defaults in the others
MetadataWith(field, c) ==
    [asset_id |-> IF field = "asset_id" THEN c.val ELSE Unknown,
     manufacturer |-> IF field = "manufacturer" THEN c.val ELSE Unknown,
     model |-> IF field = "model" THEN c.val ELSE Unknown,
     rating_MVA |-> IF field = "rating_MVA" /\ c.num >= 0 THEN c.num ELSE 100,
     date |-> IF field = "test_date" THEN c.val ELSE IsoFormat(NowTs),
     instrument |-> IF field = "instrument" THEN c.val ELSE Unknown,
     test_voltage |-> IF field = "test_voltage" /\ c.num >= 0 THEN c.num ELSE 1000]

\* the metadata fields of a record
MetadataIn(rec) ==
    [asset_id |-> rec.asset_metadata.asset_id,
     manufacturer |-> rec.asset_metadata.manufacturer,
     model |-> rec.asset_metadata.model,
     rating_MVA |-> rec.asset_metadata.rating_MVA,
     date |-> rec.test_info.date,
     instrument |-> rec.test_info.instrument,
     test_voltage |-> rec.test_info.test_voltage]

\* the file of the scenario: '# Manufacturer: ABB', a header row, 20 rows
ScenarioDoc == CsvDoc(0, 1, 20, "none", "span", 3, "db")

\* C9 (as claimed): the key of a leading comment line is mapped by the
\* priority list asset/id, manufacturer/make, model, mva/rating, date,
\* instrument/device, voltage+test, the first matching rule deciding; the
\* file of the scenario gives manufacturer 'ABB' and resolution 20
C9_ListedPriority ==
    /\ \A d \in CsvDocs :
          (Returned({"csv_parser.parse_file"}) /\ fs[out.path] = CsvFiles[d] /\ d.comment # 0)
          => MetadataIn(out.result.rec)
                = MetadataWith(ListedField(Lower(HeaderComments[d.comment].key), {KwAsset, KwId}),
                               HeaderComments[d.comment])
    /\ (Returned({"csv_parser.parse_file"}) /\ fs[out.path] = CsvFiles[ScenarioDoc])
          => /\ out.result.rec.asset_metadata.manufacturer = <<65, 66, 66>>
             /\ out.result.rec.measurement.resolution = 20

\* C9 (amended): the key of a comment line among the first 20 lines of the
\* file is mapped by the priority list asset/transformer/id,
\* manufacturer/make, model, mva/rating, date, instrument/device,
\* voltage+test, the first matching rule deciding; a comment line after
\* the first 20 lines sets nothing; the file of the scenario gives
\* manufacturer 'ABB' and resolution 20
C9_CodePriority ==
    /\ \A d \in CsvDocs :
          (Returned({"csv_parser.parse_file"}) /\ fs[out.path] = CsvFiles[d] /\ d.comment # 0)
          => MetadataIn(out.result.rec)
                = MetadataWith(IF d.pad >= 20 THEN ""
                               ELSE ListedField(Lower(HeaderComments[d.comment].key),
                                                {KwAsset, KwTransformer, KwId}),
                               HeaderComments[d.comment])
    /\ (Returned({"csv_parser.parse_file"}) /\ fs[out.path] = CsvFiles[ScenarioDoc])
          => /\ out.result.rec.asset_metadata.manufacturer = <<65, 66, 66>>
             /\ out.result.rec.measurement.resolution = 20

\* C9 witness: the comment '# Transformer Model: X9' has set the asset id,
\* and the model is left at its default
C9_Witness ==
    /\ Returned({"csv_parser.parse_file"})
    /\ fs[out.path] = CsvFiles[CsvDoc(0, 2, 10, "none", "asc", 3, "db")]
    /\ out.result.rec.asset_metadata.asset_id = <<88, 57>>
    /\ out.result.rec.asset_metadata.model = Unknown

\* the unit a JSON file declares: 'unit', else for a generic object
\* 'magnitude_unit', else dB
DeclaredUnit(d) ==
    IF d.unit # "" THEN d.unit
    ELSE IF d.shape = "generic" /\ d.magnitude_unit # "" THEN d.magnitude_unit
    ELSE "dB"

\* C10 (as claimed): every record parse_file returns, and every record
\* from parse_file that validate_canonical_data accepts, has the unit dB
C10_AlwaysDb ==
    /\ Returned({"parse_file"}) => out.result.rec.measurement.unit = "dB"
    /\ (Validated /\ out.from = "parse_file") => out.data.measurement.unit = "dB"

\* C10 (amended): a record parse_file returns for a CSV, XML or vendor
\* binary file has the unit dB; a record it returns for a JSON file has the
\* unit the file declares
C10_UnitByFormat ==
    /\ (Returned({"parse_file"}) /\ out.result.format # "json")
          => out.result.rec.measurement.unit = "dB"
    /\ \A d \in JsonDocs :
          ( /\ Returned({"parse_file"})
            /\ out.result.format = "json"
            /\ fs[out.path] = JsonFiles[d] )
          => out.result.rec.measurement.unit = DeclaredUnit(d)

\* C10 witness: parse_file has returned a record of 10 points with the unit
\* linear for a JSON file
C10_Witness ==
    /\ Returned({"parse_file"})
    /\ out.result.format = "json"
    /\ out.result.rec.measurement.unit = "linear"
    /\ Len(out.result.rec.measurement.frequencies) = 10

-----------------------------------------------------------------------------
(* Specification SpecXml: XML documents in the point layout, in the array  *)
(* layout and with Asset, Test and MeasurementData sections, with and      *)
(* without a default namespace.                                            *)

\* the tree ElementTree builds from a document whose root declares the
\* default namespace ns: every tag is '{ns}tag'
RECURSIVE Qualified(_, _)
Qualified(e, ns) ==
    [tag |-> <<123>> \o ns \o <<125>> \o e.tag,
     text |-> e.text,
     attrib |-> e.attrib,
     children |-> [i \in 1..Len(e.children) |-> Qualified(e.children[i], ns)]]

\* the text of a document whose root declares the default namespace ns
XmlTextNs(root, ns) ==
    <<60>> \o root.tag \o <<32, 120, 109, 108, 110, 115, 61, 34>> \o ns \o <<34, 62>> \o root.text
    \o Concat([i \in 1..Len(root.children) |-> XmlText(root.children[i])])
    \o <<60, 47>> \o root.tag \o <<62>>

\* an XML file holding the tree under the default namespace ns
XmlFileNs(root, ns) ==
    [bytes |-> Utf8Encode(XmlDeclaration \o XmlTextNs(root, ns)),
     json |-> NoJson,
     xml |-> XmlTree(Qualified(root, ns))]

\* 'http://fra.schema/v1.0'
FraNamespace == <<104, 116, 116, 112, 58, 47, 47, 102, 114, 97, 46, 115, 99, 104, 101, 109, 97, 47, 118, 49, 46, 48>>

\* an XML document of n well-formed points: layout "points" (Point
\* elements under Data), "arrays" (Frequencies and Magnitudes elements of
\* n values delimited by sep) or "sections" (Asset, Test and
\* MeasurementData sections, Point elements with Frequency, Magnitude and
\* Phase), under the default namespace ns unless ns is empty
XmlLayout(layout, n, sep, ns) ==
    [layout |-> layout, n |-> n, sep |-> sep, ns |-> ns, order |-> "asc", mags |-> "db",
     bad |-> "none"]

\* <Point><Frequency>f</Frequency><Magnitude>m</Magnitude><Phase>p</Phase></Point>
XmlSectionPoint(d, i) ==
    Node(<<80, 111, 105, 110, 116>>,
         <<Leaf(<<70, 114, 101, 113, 117, 101, 110, 99, 121>>, Digits(RowFreq(d, i))),
           Leaf(<<77, 97, 103, 110, 105, 116, 117, 100, 101>>, Digits(RowMag(d, i))),
           Leaf(<<80, 104, 97, 115, 101>>, Digits(RowPhase(i)))>>)

\* the document of test_xml_parser with n points
XmlSectionsRoot(d) ==
    Node(<<70, 82, 65, 95, 77, 101, 97, 115, 117, 114, 101, 109, 101, 110, 116>>,
         <<Node(<<65, 115, 115, 101, 116>>,
                <<Leaf(<<73, 68>>, <<84, 82, 48, 48, 50>>), Leaf(<<77, 97, 110, 117, 102, 97, 99, 116, 117, 114, 101, 114>>, <<83, 105, 101, 109, 101, 110, 115>>),
                  Leaf(<<77, 111, 100, 101, 108>>, <<71, 69, 65, 70, 79, 76>>), Leaf(<<82, 97, 116, 105, 110, 103>>, <<50, 48, 48, 32, 77, 86, 65>>)>>),
           Node(<<84, 101, 115, 116>>,
                <<Leaf(<<68, 97, 116, 101>>, <<50, 48, 50, 52, 45, 48, 49, 45, 50, 48>>), Leaf(<<73, 110, 115, 116, 114, 117, 109, 101, 110, 116>>, <<77, 52, 48, 48, 48>>),
                  Leaf(<<86, 111, 108, 116, 97, 103, 101>>, <<56, 48, 48, 86>>)>>),
           Node(<<77, 101, 97, 115, 117, 114, 101, 109, 101, 110, 116, 68, 97, 116, 97>>, [i \in 1..d.n |-> XmlSectionPoint(d, i)])>>)

\* <FRA><Data><Frequencies>..</Frequencies><Magnitudes>..</Magnitudes></Data></FRA>
XmlArraysRoot(d) ==
    Node(<<70, 82, 65>>,
         <<Node(<<68, 97, 116, 97>>,
                <<Leaf(<<70, 114, 101, 113, 117, 101, 110, 99, 105, 101, 115>>, Join([i \in 1..d.n |-> Digits(RowFreq(d, i))], <<d.sep>>)),
                  Leaf(<<77, 97, 103, 110, 105, 116, 117, 100, 101, 115>>, Join([i \in 1..d.n |-> Digits(RowMag(d, i))], <<d.sep>>))>>)>>)

\* the file of a document
XmlLayoutFile(d) ==
    IF d.layout = "sections"
    THEN (IF d.ns = <<>> THEN XmlFile(XmlSectionsRoot(d)) ELSE XmlFileNs(XmlSectionsRoot(d), d.ns))
    ELSE IF d.layout = "arrays" THEN XmlFile(XmlArraysRoot(d))
    ELSE XmlFile(XmlRoot(d))

\* how many points the documents have
PointCounts == {9, 10, 11}

XmlLayouts ==
    {XmlLayout("points", n, 44, <<>>) : n \in PointCounts}
    \cup {XmlLayout("arrays", n, sep, <<>>) : n \in PointCounts, sep \in {44, 32}}
    \cup {XmlLayout("sections", n, 44, ns) : n \in {10, 15}, ns \in {<<>>, FraNamespace}}

XmlLayoutFiles == [d \in XmlLayouts |-> XmlLayoutFile(d)]

XmlPaths == {PathXml, PathData}

NextXml ==
    \/ \E path \in XmlPaths, d \in XmlLayouts : PutFile(path, XmlLayoutFiles[d])
    \/ \E path \in XmlPaths : XmlParseFile(path)
    \/ \E path \in XmlPaths : ParseFile(path)
    \/ Validate
    \/ Return

SpecXml == Init /\ [][NextXml]_vars

\* C11: XMLParser.parse_file succeeds exactly when the document holds at
\* least 10 well-formed points, in the point layout and in the array
\* layout alike, and fails with the insufficient-data error otherwise
C11_TenPointsEitherLayout ==
    \A d \in XmlLayouts :
        (CalledOnFile({"xml_parser.parse_file"}, XmlLayoutFiles[d]) /\ d.ns = <<>>)
        => IF d.n >= 10
           THEN /\ out.result.status = "ok"
                /\ Len(out.result.rec.measurement.frequencies) = d.n
           ELSE /\ out.result.status = "error"
                /\ out.result.msg = "Insufficient frequency data points found in XML"

\* C12: XMLParser.parse_file on a document with Asset, Test and
\* MeasurementData sections under a default namespace returns a record
\* with one point per Point element and the asset id and the manufacturer
\* of the Asset section
C12_DefaultNamespace ==
    \A d \in XmlLayouts :
        ( /\ CalledOnFile({"xml_parser.parse_file"}, XmlLayoutFiles[d])
          /\ d.layout = "sections" /\ d.ns # <<>> )
        => /\ out.result.status = "ok"
           /\ Len(out.result.rec.measurement.frequencies) = d.n
           /\ out.result.rec.asset_metadata.asset_id = <<84, 82, 48, 48, 50>>
           /\ out.result.rec.asset_metadata.manufacturer = <<83, 105, 101, 109, 101, 110, 115>>

-----------------------------------------------------------------------------
(* FRANormalizer.  numpy, scipy and PyWavelets are outside the repository: *)
(* their array operations are modelled on integer values.  Sorting,        *)
(* np.unique, masking, np.clip, np.unwrap and the phase wrap are computed  *)
(* exactly; interpolation, the Savitzky-Golay filter and the wavelet       *)
(* denoising are integer stand-ins that keep the library's array lengths   *)
(* and failure conditions (their values are rounded approximations).       *)

\* FRANormalizer.__init__: freq_range, magnitude_range, the filter parameters
freq_min == 20000

freq_max == 12000000

mag_min == -60

mag_max == 60

sg_window == 51

sg_polyorder == 3

\* np.argsort(xs): the indices of xs in ascending order of value, equal
\* values in their order of occurrence
ArgSort(xs) ==
    [k \in 1..Len(xs) |->
        CHOOSE i \in 1..Len(xs) :
            Cardinality({j \in 1..Len(xs) : xs[j] < xs[i] \/ (xs[j] = xs[i] /\ j < i)}) = k - 1]

\* xs[indices] for a list of indices
AtIndices(xs, indices) == [k \in 1..Len(indices) |-> xs[indices[k]]]

\* np.unique(xs, return_index=True)[1] on a sorted array: the index of the
\* first occurrence of each value
UniqueIndices(xs) == Positions(xs, LAMBDA i : i = 1 \/ xs[i] # xs[i - 1])

\* the indices of (xs >= freq_min) & (xs <= freq_max)
ValidMask(xs) == Positions(xs, LAMBDA i : xs[i] >= freq_min /\ xs[i] <= freq_max)

\* np.linspace(lo, hi, n)[k - 1], rounded down
Linspace(lo, hi, n, k) == lo + ((hi - lo) * (k - 1)) \div (n - 1)

\* 1000 * log10(freq_min) and 1000 * log10(freq_max), rounded
LogFreqMin == 4301

LogFreqMax == 7079

\* np.logspace(log10(freq_min), log10(freq_max), target_points), rounded,
\* for the grids of 4 and of 6 points
Logspace(target_points) ==
    IF target_points = 4 THEN <<20000, 168687, 1422757, 12000000>>
    ELSE <<20000, 71889, 258399, 928797, 3338497, 12000000>>

\* the segment of the sorted array xs used for x: the last one that starts
\* at or below x, the first or the last segment outside the array
Segment(xs, x) ==
    IF x <= xs[1] THEN 1
    ELSE IF x >= xs[Len(xs)] THEN Len(xs) - 1
    ELSE CHOOSE i \in 1..(Len(xs) - 1) : xs[i] <= x /\ x < xs[i + 1]

\* the value at x on the line through (x1, y1) and (x2, y2), frequencies
\* taken in kHz
OnLine(x1, y1, x2, y2, x) ==
    y1 + ((y2 - y1) * ((x - x1) \div 1000)) \div Max((x2 - x1) \div 1000, 1)

\* interp1d(xs, ys, bounds_error=False, fill_value='extrapolate')(x)
Interp1d(xs, ys, x) ==
    OnLine(xs[Segment(xs, x)], ys[Segment(xs, x)],
           xs[Segment(xs, x) + 1], ys[Segment(xs, x) + 1], x)

\* the interpolator applied to every point of the grid
InterpAll(xs, ys, grid) == [k \in 1..Len(grid) |-> Interp1d(xs, ys, grid[k])]

\* the step np.unwrap leaves between two phases d degrees apart: d brought
\* into [-180, 180), and 180 instead of -180 for a positive d
UnwrapStep(d) ==
    IF Abs(d) < 180 THEN d
    ELSE IF (d + 180) % 360 = 0 /\ d > 0 THEN 180
    ELSE ((d + 180) % 360) - 180

\* np.degrees(np.unwrap(np.radians(phases)))[i - 1]
RECURSIVE UnwrapAt(_, _)
UnwrapAt(phases, i) ==
    IF i = 1 THEN phases[1]
    ELSE UnwrapAt(phases, i - 1) + UnwrapStep(phases[i] - phases[i - 1])

\* np.degrees(np.unwrap(np.radians(phases)))
Unwrap(phases) == [i \in 1..Len(phases) |-> UnwrapAt(phases, i)]

\* the three arrays of resample_to_common_grid at the indices kept
PickArrays(a, indices) ==
    [f |-> AtIndices(a.f, indices), m |-> AtIndices(a.m, indices),
     p |-> IF a.has_phases THEN AtIndices(a.p, indices) ELSE <<>>,
     has_phases |-> a.has_phases]

\* sorted by frequency; duplicate frequencies removed; clipped to the range
SortedArrays(a) == PickArrays(a, ArgSort(a.f))

UniqueArrays(a) == PickArrays(a, UniqueIndices(a.f))

ClippedArrays(a) == PickArrays(a, ValidMask(a.f))

\* the interpolation onto the grid, once the arrays are sorted, unique and
\* clipped: at least 10 points are required, and the try block
\* interpolates magnitudes and unwrapped phases over the log-frequencies
ResampleOnto(a, grid) ==
    IF Len(a.f) < 10
    THEN Raise("ValueError", "Insufficient frequency points after filtering")
    ELSE [status |-> "ok",
          frequencies |-> grid,
          magnitudes |-> InterpAll(a.f, a.m, grid),
          phases |-> IF a.has_phases THEN InterpAll(a.f, Unwrap(a.p), grid) ELSE <<>>,
          has_phases |-> a.has_phases,
          interpolation |-> "cubic"]

\* the except branch of resample_to_common_grid: interp1d(frequencies,
\* magnitudes, kind='linear', bounds_error=False, fill_value='extrapolate')
\* on the target frequencies, and the same for the phases as they are
LinearFallback(a, grid) ==
    [status |-> "ok",
     frequencies |-> grid,
     magnitudes |-> InterpAll(a.f, a.m, grid),
     phases |-> IF a.has_phases THEN InterpAll(a.f, a.p, grid) ELSE <<>>,
     has_phases |-> a.has_phases,
     interpolation |-> "linear"]

\* the try block without the except branch: the exception of the cubic
\* interpolator is let through
InterpolateOntoRaising(a, grid, cubic) ==
    IF Len(a.f) < 10 \/ cubic THEN ResampleOnto(a, grid)
    ELSE Raise("ValueError", "cubic interpolation failed")

\* the try block and its except branch on the sorted, unique and clipped
\* arrays; cubic tells whether interp1d(kind='cubic') returns
InterpolateOnto(a, grid, cubic) ==
    IF Len(a.f) < 10 \/ cubic THEN ResampleOnto(a, grid) ELSE LinearFallback(a, grid)

\* resample_to_common_grid; a = [f, m, p, has_phases] (phases is None when
\* has_phases is FALSE).  Indexing an array shorter than the frequencies
\* with sort_indices raises IndexError.  cubic tells whether
\* interp1d(kind='cubic') returns on this host.
resample_to_common_grid(a, target_points, cubic) ==
    IF Len(a.m) < Len(a.f) \/ (a.has_phases /\ Len(a.p) < Len(a.f))
    THEN Raise("IndexError", "index out of bounds")
    ELSE InterpolateOnto(ClippedArrays(UniqueArrays(SortedArrays(a))),
                         Logspace(target_points), cubic)

\* window_size of apply_savgol_filter for an array of n values
SavgolWindow(n) ==
    Max(IF Min(sg_window, n) % 2 = 0 THEN Min(sg_window, n) - 1 ELSE Min(sg_window, n), 5)

\* the sum of xs[lo..hi]
RECURSIVE SumRange(_, _, _)
SumRange(xs, lo, hi) == IF lo > hi THEN 0 ELSE xs[hi] + SumRange(xs, lo, hi - 1)

\* signal.savgol_filter(xs, window, polyorder): the mean over the window
\* around each value stands for the polynomial fit
SavgolValues(xs, window) ==
    [i \in 1..Len(xs) |->
        SumRange(xs, Max(1, i - window \div 2), Min(Len(xs), i + window \div 2))
            \div (Min(Len(xs), i + window \div 2) - Max(1, i - window \div 2) + 1)]

\* apply_savgol_filter: savgol_filter raises ValueError when the window is
\* longer than the array, and the arrays are returned as they are; ran
\* tells whether the filter was applied
apply_savgol_filter(magnitudes, phases, has_phases) ==
    IF SavgolWindow(Len(magnitudes)) > Len(magnitudes)
    THEN [magnitudes |-> magnitudes, phases |-> phases, ran |-> FALSE]
    ELSE [magnitudes |-> SavgolValues(magnitudes, SavgolWindow(Len(magnitudes))),
          phases |-> IF has_phases THEN SavgolValues(phases, SavgolWindow(Len(magnitudes)))
                     ELSE phases,
          ran |-> TRUE]

\* np.median of an odd number of values
Median(xs) == AtIndices(xs, ArgSort(xs))[(Len(xs) + 1) \div 2]

\* np.abs(np.diff(xs))
AbsDiff(xs) == [i \in 1..(Len(xs) - 1) |-> Abs(xs[i + 1] - xs[i])]

\* pywt.threshold(x, threshold, mode='soft')
SoftThreshold(x, threshold) ==
    IF Abs(x) <= threshold THEN 0
    ELSE IF x > 0 THEN x - threshold ELSE x + threshold

\* the threshold sigma * sqrt(2 * log(n)) with sigma = median / 0.6745,
\* rounded down (the factor is 2.5 for 4 to 6 values)
WaveletThreshold(xs) == (5 * Median(AbsDiff(xs))) \div 2

\* apply_wavelet_denoising: without PyWavelets the import fails and the
\* magnitudes are returned as they are.  An array shorter than the db4
\* filter is decomposed at level 0, so every value is soft-thresholded.
apply_wavelet_denoising(magnitudes, pywt) ==
    IF ~pywt THEN [magnitudes |-> magnitudes, ran |-> FALSE]
    ELSE [magnitudes |->
              [i \in 1..Len(magnitudes) |->
                  SoftThreshold(magnitudes[i], WaveletThreshold(magnitudes))],
          ran |-> TRUE]

\* the value left as it is
Unclipped(x) == x

\* np.clip(x, mag_min, mag_max)
Clip(x) == Max(mag_min, Min(mag_max, x))

\* normalize_magnitude: each value as the fraction num / den
normalize_magnitude(magnitudes) ==
    [i \in 1..Len(magnitudes) |->
        [num |-> Clip(magnitudes[i]) - mag_min, den |-> mag_max - mag_min]]

\* np.angle(np.exp(1j * np.radians(p)), deg=True): p brought into
\* [-180, 180], an odd multiple of 180 keeping the sign of p
WrapPhase(p) ==
    IF p % 360 = 180 THEN (IF p > 0 THEN 180 ELSE -180)
    ELSE ((p + 180) % 360) - 180

\* normalize_phase: each value as the fraction num / den
normalize_phase(phases) ==
    [i \in 1..Len(phases) |-> [num |-> WrapPhase(phases[i]), den |-> 180]]

\* Python's None
None == "None"

\* unit.lower(), for the unit tags of the model
UnitLower(unit) == IF unit = "dB" THEN "db" ELSE unit

\* 20 * np.log10(np.maximum(m, 1e-12)), for m up to 9
ToDb(m) == IF m <= 0 THEN LinearToDb[1] ELSE LinearToDb[m + 1]

\* the magnitudes in dB: converted when the unit is 'linear' or
\* 'magnitude', taken as dB for any other unit
MagnitudesOfUnit(magnitudes, unit) ==
    IF UnitLower(unit) # "db" /\ UnitLower(unit) \in {"linear", "magnitude"}
    THEN [i \in 1..Len(magnitudes) |-> ToDb(magnitudes[i])]
    ELSE magnitudes

\* the arrays process_fra_data extracts from the measurement; phases is
\* None when the record has no phases or an empty list
ExtractArrays(measurement) ==
    [f |-> measurement.frequencies,
     m |-> MagnitudesOfUnit(measurement.magnitudes, Get(measurement, "unit", "dB")),
     p |-> Get(measurement, "phases", <<>>),
     has_phases |-> Len(Get(measurement, "phases", <<>>)) > 0]

\* step 2: the filter when requested
FilterStep(resampled, apply_filtering) ==
    IF apply_filtering
    THEN apply_savgol_filter(resampled.magnitudes, resampled.phases, resampled.has_phases)
    ELSE [magnitudes |-> resampled.magnitudes, phases |-> resampled.phases, ran |-> FALSE]

\* step 3: the wavelet denoising when requested
WaveletStep(filtered, apply_wavelet, pywt) ==
    IF apply_wavelet THEN apply_wavelet_denoising(filtered.magnitudes, pywt)
    ELSE [magnitudes |-> filtered.magnitudes, ran |-> FALSE]

\* the measurement dict after the assignments of process_fra_data: the
\* keys assigned, and every other key as it was
AssignedMeasurement(measurement, frequencies, magnitudes, phases, has_phases) ==
    IF has_phases
    THEN [frequencies |-> frequencies, magnitudes |-> magnitudes, unit |-> "dB",
          phases |-> phases, phase_unit |-> "degrees"] @@ measurement
    ELSE [frequencies |-> frequencies, magnitudes |-> magnitudes, unit |-> "dB"] @@ measurement

\* preprocessing_steps: the entries that are not None
preprocessing_steps(apply_filtering, apply_wavelet) ==
    SelectSeq(<<"resampling_to_common_grid",
                IF apply_filtering THEN "savitzky_golay_filtering" ELSE None,
                IF apply_wavelet THEN "wavelet_denoising" ELSE None,
                "normalization">>,
              LAMBDA step : step # None)

\* processed_data['processing_metadata']
ProcessingMetadata(target_points, apply_filtering, apply_wavelet, magnitudes, phases, has_phases) ==
    [processed_date |-> IsoFormat(NowTs),
     preprocessing_steps |-> preprocessing_steps(apply_filtering, apply_wavelet),
     target_points |-> target_points,
     frequency_range_hz |-> <<freq_min, freq_max>>,
     magnitude_range_db |-> <<mag_min, mag_max>>,
     normalized_data |->
        [frequencies_log10 |->
             [k \in 1..target_points |-> Linspace(LogFreqMin, LogFreqMax, target_points, k)],
         magnitudes_normalized |-> normalize_magnitude(magnitudes),
         phases_normalized |-> IF has_phases THEN normalize_phase(phases) ELSE None]]

\* A dict holds its values by reference.  refs maps the keys of a dict to
\* the addresses of its values and heap maps the addresses to the values;
\* the sections of canonical_data are at the addresses named by their keys.
RefsOf(d) == [key \in DOMAIN d |-> key]

\* dict.copy(): a new dict that holds the same objects under the same keys
DictCopy(refs) == [key \in DOMAIN refs |-> refs[key]]

\* the dict that refs and the heap make up
Deref(refs, heap) == [key \in DOMAIN refs |-> heap[refs[key]]]

\* the address of the dict built for processed_data['processing_metadata']
NewMetadata == "new processing_metadata"

\* processed_data after processed_data['processing_metadata'] = {...}
WithMetadataKey(processed) ==
    [key \in DOMAIN processed \cup {"processing_metadata"} |->
        IF key = "processing_metadata" THEN NewMetadata ELSE processed[key]]

\* the heap after the assignments through processed_data: the measurement
\* dict is assigned into where it is, the metadata dict is new
HeapAfter(canonical_data, processed, measurement, metadata) ==
    [a \in DOMAIN canonical_data \cup {NewMetadata} |->
        IF a = processed.measurement THEN measurement
        ELSE IF a = NewMetadata THEN metadata
        ELSE canonical_data[a]]

\* what the caller holds after process_fra_data has returned: the record
\* returned, and canonical_data, the record that was passed in, as it is now
ReturnedRecords(canonical_data, processed, heap, facts) ==
    [status |-> "ok",
     rec |-> Deref(WithMetadataKey(processed), heap),
     canonical_data |-> Deref(RefsOf(canonical_data), heap)] @@ facts

\* the end of process_fra_data: the copy, the assignments, the metadata
ProcessedData(canonical_data, target_points, apply_filtering, apply_wavelet, resampled, filtered, denoised) ==
    ReturnedRecords(canonical_data,
              DictCopy(RefsOf(canonical_data)),
              HeapAfter(canonical_data,
                        DictCopy(RefsOf(canonical_data)),
                        AssignedMeasurement(canonical_data.measurement, resampled.frequencies,
                                            denoised.magnitudes, filtered.phases,
                                            resampled.has_phases),
                        ProcessingMetadata(target_points, apply_filtering, apply_wavelet,
                                           denoised.magnitudes, filtered.phases,
                                           resampled.has_phases)),
              [interpolation |-> resampled.interpolation,
               savgol_ran |-> filtered.ran,
               wavelet_ran |-> denoised.ran])

\* steps 2 to 4 once the resampling has succeeded
ProcessResampled(canonical_data, target_points, apply_filtering, apply_wavelet, pywt, resampled, filtered) ==
    ProcessedData(canonical_data, target_points, apply_filtering, apply_wavelet,
                  resampled, filtered, WaveletStep(filtered, apply_wavelet, pywt))

\* process_fra_data of a normalizer built with target_points; pywt tells
\* whether PyWavelets can be imported.  An error of the resampling is
\* raised before anything is assigned.
ProcessFrom(canonical_data, target_points, apply_filtering, apply_wavelet, pywt, resampled) ==
    IF resampled.status = "error" THEN resampled @@ [canonical_data |-> canonical_data]
    ELSE ProcessResampled(canonical_data, target_points, apply_filtering, apply_wavelet, pywt,
                          resampled, FilterStep(resampled, apply_filtering))

process_fra_data(canonical_data, target_points, apply_filtering, apply_wavelet, pywt, cubic) ==
    ProcessFrom(canonical_data, target_points, apply_filtering, apply_wavelet, pywt,
                resample_to_common_grid(ExtractArrays(canonical_data.measurement),
                                        target_points, cubic))

\* FRANormalizer(target_points).process_fra_data(canonical_data,
\* apply_filtering, apply_wavelet): out holds the record that was given,
\* as it was before the call, and what the caller holds after it
ProcessFraData(canonical_data, target_points, apply_filtering, apply_wavelet, pywt, cubic) ==
    /\ out = Idle
    /\ out' = [op |-> "process_fra_data", given |-> canonical_data,
               target_points |-> target_points,
               apply_filtering |-> apply_filtering, apply_wavelet |-> apply_wavelet,
               result |-> process_fra_data(canonical_data, target_points, apply_filtering,
                                           apply_wavelet, pywt, cubic)]
    /\ UNCHANGED <<fs, arg, db, now, pending>>

\* the pipeline: the record the validator has accepted is normalized
ProcessValidated(target_points, apply_filtering, apply_wavelet, pywt, cubic) ==
    /\ out.op = "validate_canonical_data"
    /\ out.valid
    /\ out' = [op |-> "process_fra_data", given |-> out.data,
               target_points |-> target_points,
               apply_filtering |-> apply_filtering, apply_wavelet |-> apply_wavelet,
               result |-> process_fra_data(out.data, target_points, apply_filtering,
                                           apply_wavelet, pywt, cubic)]
    /\ UNCHANGED <<fs, arg, db, now, pending>>

-----------------------------------------------------------------------------
(* Specification SpecNorm: records given to the normalizer, and files      *)
(* parsed, validated and normalized.                                       *)

\* a record of n points: freqs tells where the frequencies lie, mags and
\* phases the values, unit the unit tag
NormDoc(n, freqs, mags, phases, unit) ==
    [n |-> n, freqs |-> freqs, mags |-> mags, phases |-> phases, unit |-> unit]

\* across the target range; inside a part of it; descending; with the
\* second frequency repeated; the first one below the range; all below it
NormFreq(d, i) ==
    CASE d.freqs = "span" -> 20000 + 1300000 * (i - 1)
      [] d.freqs = "narrow" -> 200000 + 100000 * (i - 1)
      [] d.freqs = "desc" -> 20000 + 1300000 * (d.n - i)
      [] d.freqs = "dup" -> 20000 + 1300000 * Max(i - 2, 0)
      [] d.freqs = "edge" -> IF i = 1 THEN 10000 ELSE 20000 + 1000000 * (i - 1)
      [] d.freqs = "low" -> 100 * i

\* inside the dB window; falling through it; linear ratios 0..9
NormMag(d, i) ==
    CASE d.mags = "db" -> -(20 + i)
      [] d.mags = "steep" -> 100 - 20 * i
      [] d.mags = "linear" -> i % 10

\* small angles; angles beyond a turn; angles that jump across +-180
NormPhase(d, i) ==
    CASE d.phases = "small" -> 5 * i
      [] d.phases = "wide" -> 90 * i - 500
      [] d.phases = "jump" -> IF i % 2 = 0 THEN 170 ELSE -170

\* how many phases a record has: as many as frequencies, none, or one less
NormPhaseCount(d) ==
    IF d.phases = "none" THEN 0 ELSE IF d.phases = "short" THEN d.n - 1 ELSE d.n

NormRecord(d) ==
    [asset_metadata |-> JsonObject(JsonDoc("canonical", 1, 1, "asc", "dB", "")).asset_metadata,
     test_info |-> JsonObject(JsonDoc("canonical", 1, 1, "asc", "dB", "")).test_info,
     measurement |->
        [MeasurementOf([i \in 1..d.n |-> NormFreq(d, i)],
                       [i \in 1..d.n |-> NormMag(d, i)],
                       [i \in 1..NormPhaseCount(d) |->
                           NormPhase(IF d.phases = "short" THEN [d EXCEPT !.phases = "small"]
                                     ELSE d, i)])
         EXCEPT !.unit = d.unit],
     raw_file |-> [filename |-> PathCsv]]

NormDocs ==
    {NormDoc(10, freqs, "db", "small", "dB") : freqs \in {"span", "narrow", "desc", "low"}}
    \cup {NormDoc(n, freqs, "db", "none", "dB") : n \in {10, 11}, freqs \in {"dup", "edge"}}
    \cup {NormDoc(10, "span", mags, phases, "dB") :
            mags \in {"db", "steep"}, phases \in {"none", "wide", "jump"}}
    \cup {NormDoc(10, "span", "linear", "small", unit) : unit \in {"linear", "magnitude", "ratio"}}
    \cup {NormDoc(11, "span", "db", "short", "dB")}

NormRecords == {NormRecord(d) : d \in NormDocs}

\* the grids the normalizers are built with
TargetPointChoices == {4, 6}

\* the files of the pipeline: the CSV file of the scenario, a CSV file
\* below the target range, a generic JSON file in linear units across it
NormFiles ==
    {<<PathCsv, CsvFiles[ScenarioDoc]>>,
     <<PathCsv, CsvFiles[CsvDoc(0, 0, 10, "none", "asc", 3, "db")]>>,
     <<PathJson, JsonFile(JsonObject(JsonDoc("generic", 10, 10, "span", "linear", "")))>>}

NextNorm ==
    \/ \E rec \in NormRecords, tp \in TargetPointChoices,
          apply_filtering \in BOOLEAN, apply_wavelet \in BOOLEAN, pywt \in BOOLEAN,
          cubic \in BOOLEAN :
          ProcessFraData(rec, tp, apply_filtering, apply_wavelet, pywt, cubic)
    \/ \E t \in NormFiles : PutFile(t[1], t[2])
    \/ \E path \in {PathCsv, PathJson} : ParseFile(path)
    \/ Validate
    \/ \E tp \in TargetPointChoices,
          apply_filtering \in BOOLEAN, apply_wavelet \in BOOLEAN, pywt \in BOOLEAN,
          cubic \in BOOLEAN :
          ProcessValidated(tp, apply_filtering, apply_wavelet, pywt, cubic)
    \/ Return

SpecNorm == Init /\ [][NextNorm]_vars

-----------------------------------------------------------------------------
(* Claims about the normalizer, checked under SpecNorm.                    *)

\* process_fra_data has returned a record
Processed == out.op = "process_fra_data" /\ out.result.status = "ok"

\* C13: process_fra_data never mutates its input: after the call the
\* record that was passed in, its nested measurement included, is what it
\* was before the call, and the record returned is another object.
C13_InputUntouched ==
    out.op = "process_fra_data" => out.result.canonical_data = out.given

\* the distinct frequencies of a measurement that lie in the target range
KeptFrequencies(measurement) ==
    {AtIndices(measurement.frequencies, ValidMask(measurement.frequencies))[k] :
        k \in 1..Len(ValidMask(measurement.frequencies))}

\* a record the validator accepts that keeps at least 10 distinct
\* frequencies in the target range
KeepsTen(rec) ==
    /\ validate_canonical_data(rec)
    /\ Cardinality(KeptFrequencies(rec.measurement)) >= 10

\* a fraction num / den in [lo, hi]
FractionWithin(x, lo, hi) == lo * x.den <= x.num /\ x.num <= hi * x.den

\* C14: for every input record that keeps at least 10 distinct frequencies
\* in the target range, process_fra_data returns frequencies, magnitudes
\* and, when the input has phases, phases of exactly target_points entries,
\* normalized magnitudes in [0, 1] and normalized phases in [-1, 1],
\* whatever the input length and whichever optional steps are requested.
C14_TargetPointsAndRanges ==
    (out.op = "process_fra_data" /\ KeepsTen(out.given)) =>
        /\ out.result.status = "ok"
        /\ Len(out.result.rec.measurement.frequencies) = out.target_points
        /\ Len(out.result.rec.measurement.magnitudes) = out.target_points
        /\ ("phases" \in DOMAIN out.given.measurement =>
                Len(out.result.rec.measurement.phases) = out.target_points)
        /\ LET normalized == out.result.rec.processing_metadata.normalized_data IN
           /\ Len(normalized.magnitudes_normalized) = out.target_points
           /\ \A i \in 1..out.target_points :
                  FractionWithin(normalized.magnitudes_normalized[i], 0, 1)
           /\ "phases" \in DOMAIN out.given.measurement =>
                  /\ Len(normalized.phases_normalized) = out.target_points
                  /\ \A i \in 1..out.target_points :
                         FractionWithin(normalized.phases_normalized[i], -1, 1)

\* a record whose magnitudes leave the dB window on both sides and whose
\* phases go beyond a turn has been processed with both optional steps
C14_Witness ==
    /\ Processed
    /\ KeepsTen(out.given)
    /\ out.apply_filtering /\ out.apply_wavelet
    /\ "phases" \in DOMAIN out.given.measurement
    /\ \E i \in 1..10 : out.given.measurement.magnitudes[i] > mag_max
    /\ \E i \in 1..10 : out.given.measurement.phases[i] > 180
    /\ \E i \in 1..out.target_points :
           \/ out.result.rec.measurement.magnitudes[i] < mag_min
           \/ out.result.rec.measurement.magnitudes[i] > mag_max

\* the preprocessing steps that ran to completion in the call: resampling
\* and normalization always, the optional ones when requested and not
\* fallen back to the unfiltered arrays
StepsRun ==
    SelectSeq(<<"resampling_to_common_grid",
                IF out.apply_filtering /\ out.result.savgol_ran
                THEN "savitzky_golay_filtering" ELSE None,
                IF out.apply_wavelet /\ out.result.wavelet_ran
                THEN "wavelet_denoising" ELSE None,
                "normalization">>,
              LAMBDA step : step # None)

\* the keys of processing_metadata that hold the date, the steps, the grid
\* and the normalized arrays
MetadataKeys ==
    {"processed_date", "preprocessing_steps", "target_points", "frequency_range_hz",
     "magnitude_range_db", "normalized_data"}

\* C15: the processing metadata of a returned record lists exactly the
\* steps that ran (a requested smoothing or denoising step that fell back
\* to a no-op is not listed) and records the interpolation strategy that
\* was executed, cubic or the linear fallback.
C15_StepsThatRan ==
    Processed =>
        /\ out.result.rec.processing_metadata.preprocessing_steps = StepsRun
        /\ \E key \in DOMAIN out.result.rec.processing_metadata \ MetadataKeys :
               out.result.rec.processing_metadata[key] = out.result.interpolation

\* C19: in every record returned by a parser and by the normalizer,
\* resolution is the number of frequencies and freq_start and freq_end are
\* the first and the last frequency, so that resampling onto a grid of
\* target_points leaves a resolution of target_points.
C19_DerivedFields ==
    (Processed \/ Returned({"parse_file"})) =>
        LET measurement == out.result.rec.measurement IN
        /\ {"resolution", "freq_start", "freq_end"} \subseteq DOMAIN measurement
        /\ measurement.resolution = Len(measurement.frequencies)
        /\ measurement.freq_start = measurement.frequencies[1]
        /\ measurement.freq_end = measurement.frequencies[Len(measurement.frequencies)]

-----------------------------------------------------------------------------
(* validate_canonical_data on any value.  A Python value is held with its  *)
(* type: None, an int, a str (its codes), a list or a tuple (its items), a *)
(* dict (its items under their keys).                                      *)

PyNone == [type |-> "NoneType"]
PyInt(n) == [type |-> "int", int |-> n]
PyStr(s) == [type |-> "str", str |-> s]
PyList(items) == [type |-> "list", list |-> items]
PyTuple(items) == [type |-> "tuple", tuple |-> items]
PyDict(items) == [type |-> "dict", dict |-> items]

\* key in v: a key of a dict, an item of a list or a tuple, a part of a
\* str; TypeError for a value that is not iterable
PyIn(key, v) ==
    CASE v.type = "dict" -> key \in DOMAIN v.dict
      [] v.type = "list" ->
            \E i \in 1..Len(v.list) : v.list[i].type = "str" /\ v.list[i].str = KeyText(key)
      [] v.type = "tuple" ->
            \E i \in 1..Len(v.tuple) : v.tuple[i].type = "str" /\ v.tuple[i].str = KeyText(key)
      [] v.type = "str" -> Contains(v.str, KeyText(key))

\* all(key in v for key in keys): "True", "False", or the error raised
AllIn(keys, v) ==
    IF v.type \in {"NoneType", "int"} THEN "TypeError"
    ELSE IF \A key \in keys : PyIn(key, v) THEN "True" ELSE "False"

\* v[key] for a str key: the item of a dict, KeyError without it, and
\* TypeError for any value that is not a dict
PyItem(v, key) ==
    IF v.type # "dict" THEN Raise("TypeError", <<>>)
    ELSE IF key \notin DOMAIN v.dict THEN Raise("KeyError", <<>>)
    ELSE [status |-> "ok", value |-> v.dict[key]]

\* if not all(key in data[section] for key in required): return False
SectionStep(data, section, required) ==
    IF PyItem(data, section).status = "error" THEN PyItem(data, section).err
    ELSE AllIn(required, PyItem(data, section).value)

\* the check of phases, when 'phases' in data['measurement']
PhasesStep(measurement, frequencies) ==
    IF ~PyIn("phases", measurement) THEN "True"
    ELSE IF measurement.dict.phases.type # "list" THEN "False"
    ELSE IF Len(measurement.dict.phases.list) # Len(frequencies.list) THEN "False"
    ELSE "True"

\* the checks of the two arrays and of phases
ArraysStep(measurement, frequencies, magnitudes) ==
    IF frequencies.status = "error" THEN frequencies.err
    ELSE IF magnitudes.status = "error" THEN magnitudes.err
    ELSE IF frequencies.value.type # "list" \/ magnitudes.value.type # "list" THEN "False"
    ELSE IF ~ValidArrays(frequencies.value.list, magnitudes.value.list) THEN "False"
    ELSE PhasesStep(measurement, frequencies.value)

\* the body of the try block: "True", "False", or the error raised; the
\* first step that does not pass decides
ValidateBody(data) ==
    IF AllIn({"asset_metadata", "test_info", "measurement", "raw_file"}, data) # "True"
    THEN AllIn({"asset_metadata", "test_info", "measurement", "raw_file"}, data)
    ELSE IF SectionStep(data, "asset_metadata",
                        {"asset_id", "manufacturer", "model", "rating_MVA"}) # "True"
    THEN SectionStep(data, "asset_metadata", {"asset_id", "manufacturer", "model", "rating_MVA"})
    ELSE IF SectionStep(data, "test_info",
                        {"test_id", "date", "instrument", "test_voltage"}) # "True"
    THEN SectionStep(data, "test_info", {"test_id", "date", "instrument", "test_voltage"})
    ELSE IF SectionStep(data, "measurement", {"frequencies", "magnitudes", "unit"}) # "True"
    THEN SectionStep(data, "measurement", {"frequencies", "magnitudes", "unit"})
    ELSE ArraysStep(PyItem(data, "measurement").value,
                    PyItem(PyItem(data, "measurement").value, "frequencies"),
                    PyItem(PyItem(data, "measurement").value, "magnitudes"))

\* except (KeyError, TypeError, AttributeError): return False
ValidateOutcome(body) ==
    IF body \in {"True", "False"} THEN [status |-> "ok", valid |-> body = "True"]
    ELSE IF body \in {"KeyError", "TypeError", "AttributeError"}
    THEN [status |-> "ok", valid |-> FALSE]
    ELSE Raise(body, <<>>)

\* validate_canonical_data(data) for any value data; the function assigns
\* to nothing, so data is after the call what it was before
ValidateValue(data) == ValidateOutcome(ValidateBody(data)) @@ [data |-> data]

\* adapter.validate_canonical_data(data) called with a value of any shape
ValidateAny(data) ==
    /\ out = Idle
    /\ out' = [op |-> "validate_any", given |-> data, result |-> ValidateValue(data)]
    /\ UNCHANGED <<fs, arg, db, now, pending>>

-----------------------------------------------------------------------------
(* Specification SpecValid: the validator called with values of any shape. *)

\* a list of n numbers
Numbers(n) == PyList([i \in 1..n |-> PyInt(i)])

\* the names as a list of strings, and as one string with spaces between
NamesList(names) == PyList([i \in 1..Len(names) |-> PyStr(KeyText(names[i]))])
NamesStr(names) ==
    PyStr(Tail(ConcatRange([i \in 1..Len(names) |-> <<32>> \o KeyText(names[i])],
                           1, Len(names))))

\* a dict that holds a number under each of the names
DictOf(names) == PyDict([key \in {names[i] : i \in 1..Len(names)} |-> PyInt(1)])

\* a section as a dict with its required keys, a dict without the last of
\* them, a list of the key names, a string of the key names, None, a number
SectionShapes(names) ==
    {DictOf(names), DictOf(SubSeq(names, 1, Len(names) - 1)), NamesList(names),
     NamesStr(names), PyNone, PyInt(3)}

AssetNames == <<"asset_id", "manufacturer", "model", "rating_MVA">>
TestNames == <<"test_id", "date", "instrument", "test_voltage">>
TopNames == <<"asset_metadata", "test_info", "measurement", "raw_file">>

\* the arrays a measurement may hold: lists of 9, 10 and 11 numbers, a
\* tuple of 10 numbers, a string of 10 characters, None
ArrayShapes ==
    {Numbers(9), Numbers(10), Numbers(11), PyTuple(Numbers(10).list),
     PyStr(<<48, 49, 50, 51, 52, 53, 54, 55, 56, 57>>), PyNone}

\* measurements: dicts of two arrays and a unit, with and without phases;
\* a dict without unit; and values that are not dicts
MeasurementShapes ==
    {PyDict([frequencies |-> f, magnitudes |-> m, unit |-> PyStr(WordText("dB"))]) :
        f \in ArrayShapes, m \in {Numbers(10), Numbers(11), PyNone}}
    \cup {PyDict([frequencies |-> Numbers(10), magnitudes |-> Numbers(10),
                  unit |-> PyStr(WordText("dB")), phases |-> p]) : p \in ArrayShapes}
    \cup {PyDict([frequencies |-> Numbers(10), magnitudes |-> Numbers(10)]),
          NamesList(<<"frequencies", "magnitudes", "unit">>),
          NamesStr(<<"frequencies", "magnitudes", "unit">>), PyNone}

\* the values the validator is called with: records of four sections of
\* any shape, records without one section, and values that are not dicts
PyValues ==
    {PyDict([asset_metadata |-> a, test_info |-> t, measurement |-> m, raw_file |-> r]) :
        a \in SectionShapes(AssetNames), t \in {DictOf(TestNames), NamesStr(TestNames)},
        m \in MeasurementShapes, r \in {PyDict(<<>>), PyNone}}
    \cup {PyDict([asset_metadata |-> DictOf(AssetNames), test_info |-> t,
                  measurement |-> m, raw_file |-> PyDict(<<>>)]) :
            t \in SectionShapes(TestNames), m \in MeasurementShapes}
    \cup {PyDict([asset_metadata |-> DictOf(AssetNames), test_info |-> DictOf(TestNames),
                  measurement |-> m]) : m \in MeasurementShapes}
    \cup {NamesList(TopNames), NamesStr(TopNames), PyTuple(NamesList(TopNames).list),
          PyNone, PyInt(0), PyDict(<<>>)}

NextValid ==
    \/ \E data \in PyValues : ValidateAny(data)
    \/ Return

SpecValid == Init /\ [][NextValid]_vars

\* data is a dict that holds a dict with all the names under key
HasSection(data, key, names) ==
    /\ key \in DOMAIN data.dict
    /\ data.dict[key].type = "dict"
    /\ \A name \in names : name \in DOMAIN data.dict[key].dict

\* frequencies and magnitudes are lists of one length of at least 10, and
\* phases, if present, is a list of that length
HasArrays(measurement) ==
    /\ measurement.frequencies.type = "list"
    /\ measurement.magnitudes.type = "list"
    /\ Len(measurement.frequencies.list) = Len(measurement.magnitudes.list)
    /\ Len(measurement.frequencies.list) >= 10
    /\ "phases" \in DOMAIN measurement =>
           /\ measurement.phases.type = "list"
           /\ Len(measurement.phases.list) = Len(measurement.frequencies.list)

\* the record the validator is to accept: the four sections are present,
\* each section has its required sub-fields, and the arrays are as above
WellFormed(data) ==
    /\ data.type = "dict"
    /\ "raw_file" \in DOMAIN data.dict
    /\ HasSection(data, "asset_metadata", {"asset_id", "manufacturer", "model", "rating_MVA"})
    /\ HasSection(data, "test_info", {"test_id", "date", "instrument", "test_voltage"})
    /\ HasSection(data, "measurement", {"frequencies", "magnitudes", "unit"})
    /\ HasArrays(data.dict.measurement.dict)

\* C16: validate_canonical_data is a total predicate without side effects:
\* for every value, those that are not dicts and those with sections that
\* are not dicts or arrays that are not lists included, it returns True or
\* False without raising and leaves its argument as it was, and it returns
\* True exactly when the four sections are present, each with its required
\* sub-fields, frequencies and magnitudes are lists of equal length of at
\* least 10 and phases, if present, is a list of that length.
C16_TotalAndExact ==
    out.op = "validate_any" =>
        /\ out.result.status = "ok"
        /\ out.result.data = out.given
        /\ out.result.valid <=> WellFormed(out.given)

-----------------------------------------------------------------------------
(* Claims about errors, checked under Spec.                                *)

\* the tags a heuristic of the detector can claim a file with: those of the
\* extension table, of the signatures, and of the text checks
ClaimedFormats ==
    {extension_map[ext] : ext \in DOMAIN extension_map}
    \cup {binary_signatures[k].format_type : k \in 1..Len(binary_signatures)}
    \cup {"xml", "json", "csv"}

\* C17: detect_file_format raises a not-found error when the path does not
\* exist and an unsupported-format error when no extension, signature or
\* text heuristic matches: a tag it returns is one that a heuristic claimed
\* the file with.
C17_DetectorErrors ==
    out.op = "detect_file_format" =>
        /\ out.path \notin DOMAIN fs =>
               out.result.status = "error" /\ out.result.err = "FileNotFoundError"
        /\ (out.path \in DOMAIN fs /\ out.result.status = "ok") =>
               out.result.format \in ClaimedFormats

\* the step is a call of parse_file on an existing file that fails
ParseFails ==
    /\ out = Idle
    /\ out'.op = "parse_file"
    /\ out'.path \in DOMAIN fs
    /\ out'.result.status = "error"

-----------------------------------------------------------------------------
(* The backend: users, sessions and bearer tokens, and the endpoints that  *)
(* depend on require_auth.  db holds the collections as sets of documents, *)
(* now is the clock in minutes.  A value that may be None is held as a     *)
(* list of at most one element where it is a record.                       *)

\* 60 * 24 * 7
ACCESS_TOKEN_EXPIRE_MINUTES == 10080

SECRET_KEY == "SECRET_KEY"

\* pwd_context.hash and pwd_context.verify
get_password_hash(password) == <<"pbkdf2_sha256", password>>
verify_password(plain_password, hashed_password) ==
    hashed_password = get_password_hash(plain_password)

\* create_access_token: the claims, signed with SECRET_KEY
create_access_token(sub, clock, expires_delta) ==
    [sub |-> sub, exp |-> clock + expires_delta, key |-> SECRET_KEY]

\* jwt.decode(token, SECRET_KEY): JWTError for another signature and for
\* an exp that has passed
jwt_decode(token, clock) ==
    IF token.key # SECRET_KEY \/ token.exp < clock THEN Raise("JWTError", <<>>)
    ELSE [status |-> "ok", payload |-> [sub |-> token.sub]]

\* collection.find_one: a list of the document found, or of none
FindOne(collection, Matches(_)) ==
    IF \E doc \in collection : Matches(doc)
    THEN <<CHOOSE doc \in collection : Matches(doc)>>
    ELSE <<>>

\* a session that is found whatever its expiry
SessionKept(expires_at, clock) == TRUE

\* expires_at > datetime.now(timezone.utc)
SessionLive(expires_at, clock) == expires_at > clock

\* the user of a session found, when it has not expired and the user exists
SessionDataUser(database, clock, session_data) ==
    IF session_data = <<>> THEN None
    ELSE IF ~SessionLive(session_data[1].expires_at, clock) THEN None
    ELSE IF FindOne(database.users, LAMBDA u : u.id = session_data[1].user_id) = <<>>
    THEN None
    ELSE session_data[1].user_id

\* the first part of get_current_user: the session token of the cookie
SessionUser(database, clock, session_token) ==
    IF session_token = None THEN None
    ELSE SessionDataUser(database, clock,
                         FindOne(database.user_sessions,
                                 LAMBDA s : s.session_token = session_token))

\* the user the payload of a decoded token names
PayloadUser(database, decoded) ==
    IF decoded.status = "error" THEN None
    ELSE IF decoded.payload.sub = None THEN None
    ELSE IF FindOne(database.users, LAMBDA u : u.id = decoded.payload.sub) = <<>> THEN None
    ELSE decoded.payload.sub

\* the second part of get_current_user: the token of the Authorization header
TokenUser(database, clock, token) ==
    IF token = <<>> THEN None ELSE PayloadUser(database, jwt_decode(token[1], clock))

\* get_current_user: the id of the user, or None
get_current_user(database, clock, token, session_token) ==
    IF SessionUser(database, clock, session_token) # None
    THEN SessionUser(database, clock, session_token)
    ELSE TokenUser(database, clock, token)

\* a response and the database the handler leaves
Responds(status_code, database) == [status |-> status_code, db |-> database]

\* a response that carries the documents `body` was built from
Returns(status_code, database, body) ==
    [status |-> status_code, db |-> database, body |-> body]

\* require_auth, and the handler when it lets the request through
RequireAuth(database, current_user, handled) ==
    IF current_user = None THEN Responds(401, database) ELSE handled

\* a logout that removes no session
logout_keeping_sessions(database, current_user) == Responds(200, database)

\* POST /api/auth/logout: every session of the user is removed
logout_user(database, current_user) ==
    Responds(200, [database EXCEPT !.user_sessions =
                      {s \in @ : s.user_id # current_user}])

\* GET /api/auth/me: nothing is written
get_current_user_profile(database, current_user) == Responds(200, database)

\* GET /api/assets: the assets are grouped from the analyses the $match
\* stage lets through
list_user_assets(database, current_user) ==
    Returns(200, database, {a \in database.fra_analyses : a.user_id = current_user})

\* GET /api/asset/{asset_id}/history
get_asset_history(database, current_user, asset_id) ==
    Returns(200, database,
            {a \in database.fra_analyses : a.asset_id = asset_id /\ a.user_id = current_user})

\* NamedTemporaryFile(suffix=Path(filename).suffix): 'tmp' and the suffix
TempPath(filename) == <<116, 109, 112>> \o Suffix(filename)

\* the try block of upload_fra_file once the file is parsed
StoreParsed(database, current_user, upload_id, parsed) ==
    IF parsed.status = "error" THEN Responds(400, database)
    ELSE IF ~validate_canonical_data(parsed.rec) THEN Responds(400, database)
    ELSE Responds(200, [database EXCEPT !.fra_uploads =
                           @ \cup {[upload_id |-> upload_id, user_id |-> current_user,
                                    asset_id |-> parsed.rec.asset_metadata.asset_id]}])

\* POST /api/upload
upload_fra_file(database, current_user, upload_id, filename, file) ==
    IF filename = <<>> THEN Responds(400, database)
    ELSE StoreParsed(database, current_user, upload_id,
                     parse_file([p \in {TempPath(filename)} |-> file], TempPath(filename)))

\* the analysis_record analyze_fra stores
AnalysisRecord(current_user, upload_record, analysis_id) ==
    [analysis_id |-> analysis_id, upload_id |-> upload_record.upload_id,
     user_id |-> current_user, asset_id |-> upload_record.asset_id]

\* analyze_fra once the upload of the user is found
AnalyzeFound(database, current_user, upload_record, analysis_id, analysed) ==
    IF ~analysed THEN Responds(500, database)
    ELSE Returns(200, [database EXCEPT !.fra_analyses =
                          @ \cup {AnalysisRecord(current_user, upload_record, analysis_id)}],
                 {AnalysisRecord(current_user, upload_record, analysis_id)})

\* POST /api/analyze/{upload_id}; analysed tells whether analyze_fra_data
\* returns a result
analyze_fra(database, current_user, upload_id, analysis_id, analysed) ==
    IF FindOne(database.fra_uploads,
               LAMBDA u : u.upload_id = upload_id /\ u.user_id = current_user) = <<>>
    THEN Responds(404, database)
    ELSE AnalyzeFound(database, current_user,
                      FindOne(database.fra_uploads,
                              LAMBDA u : u.upload_id = upload_id
                                         /\ u.user_id = current_user)[1],
                      analysis_id, analysed)

\* GET /api/analysis/{analysis_id}
get_analysis_result(database, current_user, analysis_id) ==
    IF FindOne(database.fra_analyses,
               LAMBDA a : a.analysis_id = analysis_id /\ a.user_id = current_user) = <<>>
    THEN Responds(404, database)
    ELSE Returns(200, database,
                 {a \in database.fra_analyses :
                     a.analysis_id = analysis_id /\ a.user_id = current_user})

\* delete_analysis that deletes the analysis of the id, whoever owns it
delete_analysis_of_anyone(database, current_user, analysis_id) ==
    IF FindOne(database.fra_analyses, LAMBDA a : a.analysis_id = analysis_id) = <<>>
    THEN Responds(404, database)
    ELSE Responds(200, [database EXCEPT !.fra_analyses =
                           {a \in @ : a.analysis_id # analysis_id}])

\* DELETE /api/analysis/{analysis_id}
delete_analysis(database, current_user, analysis_id) ==
    IF FindOne(database.fra_analyses,
               LAMBDA a : a.analysis_id = analysis_id /\ a.user_id = current_user) = <<>>
    THEN Responds(404, database)
    ELSE Responds(200, [database EXCEPT !.fra_analyses =
                           {a \in @ : ~(a.analysis_id = analysis_id
                                        /\ a.user_id = current_user)}])

\* a request served: out holds the route, the credentials and parameters
\* of the request, and the response
Served(route, request, response) ==
    /\ out' = [op |-> route, request |-> request,
               response |-> [k \in DOMAIN response \ {"db"} |-> response[k]]]
    /\ db' = response.db
    /\ UNCHANGED <<fs, arg, now, pending>>

\* POST /api/auth/register
RegisterUser(email, password, user_id) ==
    /\ out = Idle
    /\ \A u \in db.users : u.id # user_id
    /\ IF \E u \in db.users : u.email = email
       THEN Served("POST /api/auth/register", [session_token |-> None, token |-> <<>>],
                   Responds(400, db))
       ELSE Served("POST /api/auth/register", [session_token |-> None, token |-> <<>>],
                   Responds(200, [db EXCEPT !.users =
                                     @ \cup {[id |-> user_id, email |-> email,
                                              password_hash |-> get_password_hash(password)]}]))

\* the sessions the model lets the collection hold
MaxSessions == 2

\* POST /api/auth/login: a session of ACCESS_TOKEN_EXPIRE_MINUTES under a
\* new session token
LoginUser(email, password, session_token) ==
    /\ out = Idle
    /\ Cardinality(db.user_sessions) < MaxSessions
    /\ \A s \in db.user_sessions : s.session_token # session_token
    /\ LET user_data == FindOne(db.users, LAMBDA u : u.email = email)
       IN  IF user_data = <<>> \/ ~verify_password(password, user_data[1].password_hash)
           THEN Served("POST /api/auth/login", [session_token |-> None, token |-> <<>>],
                       Responds(401, db))
           ELSE Served("POST /api/auth/login", [session_token |-> None, token |-> <<>>],
                       Responds(200, [db EXCEPT !.user_sessions =
                                         @ \cup {[user_id |-> user_data[1].id,
                                                  session_token |-> session_token,
                                                  expires_at |->
                                                      now + ACCESS_TOKEN_EXPIRE_MINUTES]}]))

\* the user of the request, for the handler
CurrentUser(request) == get_current_user(db, now, request.token, request.session_token)

\* the requests to the endpoints that depend on require_auth
GetMe(request) ==
    /\ out = Idle
    /\ Served("GET /api/auth/me", request,
              RequireAuth(db, CurrentUser(request),
                          get_current_user_profile(db, CurrentUser(request))))

Logout(request) ==
    /\ out = Idle
    /\ Served("POST /api/auth/logout", request,
              RequireAuth(db, CurrentUser(request), logout_user(db, CurrentUser(request))))

ListAssets(request) ==
    /\ out = Idle
    /\ Served("GET /api/assets", request,
              RequireAuth(db, CurrentUser(request), list_user_assets(db, CurrentUser(request))))

Upload(request, upload_id, filename, file) ==
    /\ out = Idle
    /\ \A u \in db.fra_uploads : u.upload_id # upload_id
    /\ Served("POST /api/upload", request,
              RequireAuth(db, CurrentUser(request),
                          upload_fra_file(db, CurrentUser(request), upload_id, filename, file)))

Analyze(request, upload_id, analysis_id, analysed) ==
    /\ out = Idle
    /\ \A a \in db.fra_analyses : a.analysis_id # analysis_id
    /\ Served("POST /api/analyze", request @@ [upload_id |-> upload_id],
              RequireAuth(db, CurrentUser(request),
                          analyze_fra(db, CurrentUser(request), upload_id, analysis_id,
                                      analysed)))

GetAnalysis(request, analysis_id) ==
    /\ out = Idle
    /\ Served("GET /api/analysis", request @@ [analysis_id |-> analysis_id],
              RequireAuth(db, CurrentUser(request),
                          get_analysis_result(db, CurrentUser(request), analysis_id)))

DeleteAnalysis(request, analysis_id) ==
    /\ out = Idle
    /\ Served("DELETE /api/analysis", request @@ [analysis_id |-> analysis_id],
              RequireAuth(db, CurrentUser(request),
                          delete_analysis(db, CurrentUser(request), analysis_id)))

GetAssetHistory(request, asset_id) ==
    /\ out = Idle
    /\ Served("GET /api/asset/history", request @@ [asset_id |-> asset_id],
              RequireAuth(db, CurrentUser(request),
                          get_asset_history(db, CurrentUser(request), asset_id)))

\* the minutes the clock advances by, and the last minute of the model
TickMinutes == 5040
MaxNow == 10080

\* time passes between requests
Tick ==
    /\ out = Idle
    /\ now + TickMinutes <= MaxNow
    /\ now' = now + TickMinutes
    /\ UNCHANGED <<fs, arg, out, db, pending>>

-----------------------------------------------------------------------------
(* Specification SpecAuth: users register and log in, time passes, and     *)
(* requests with any credentials reach the protected endpoints.            *)

UserIds == {"u1", "u2"}
Emails == {"a@fra"}
Passwords == {"pw1", "pw2"}
SessionTokens == {"s1", "s2"}
UploadIds == {"up1"}
AnalysisIds == {"an1"}

\* the bearer tokens of the requests: none, tokens signed with SECRET_KEY
\* for a user id or without sub, and a token signed with another key
BearerTokens ==
    {<<>>}
    \cup {<<create_access_token(sub, issued, ACCESS_TOKEN_EXPIRE_MINUTES)>> :
            sub \in UserIds \cup {None}, issued \in {0}}
    \cup {<<create_access_token("u1", 0, TickMinutes)>>,
          <<[create_access_token("u1", 0, ACCESS_TOKEN_EXPIRE_MINUTES)
             EXCEPT !.key = "another key"]>>}

\* the credentials a request carries: a session cookie or none, a bearer
\* token or none
Requests ==
    {[session_token |-> session_token, token |-> token] :
        session_token \in SessionTokens \cup {None}, token \in BearerTokens}

\* the files uploaded: the CSV file of the scenario, and a file of bytes
\* no format claims
Uploads ==
    {<<PathCsv, CsvFiles[ScenarioDoc]>>, <<PathData, BytesFile(<<0, 1, 2>>)>>}

NextAuth ==
    \/ \E email \in Emails, user_id \in UserIds : RegisterUser(email, "pw1", user_id)
    \/ \E email \in Emails, password \in Passwords :
          LoginUser(email, password, "s1")
    \/ \E request \in Requests : GetMe(request)
    \/ \E request \in Requests : Logout(request)
    \/ \E request \in Requests : ListAssets(request)
    \/ \E request \in Requests, upload_id \in UploadIds, upload \in Uploads :
          Upload(request, upload_id, upload[1], upload[2])
    \/ \E request \in Requests, upload_id \in UploadIds, analysis_id \in AnalysisIds,
          analysed \in BOOLEAN :
          Analyze(request, upload_id, analysis_id, analysed)
    \/ \E request \in Requests, analysis_id \in AnalysisIds : GetAnalysis(request, analysis_id)
    \/ \E request \in Requests, analysis_id \in AnalysisIds : DeleteAnalysis(request, analysis_id)
    \/ Tick
    \/ Return

SpecAuth == Init /\ [][NextAuth]_vars

\* the routes that depend on require_auth
ProtectedRoutes ==
    {"GET /api/auth/me", "POST /api/auth/logout", "GET /api/assets", "POST /api/upload",
     "POST /api/analyze", "GET /api/analysis", "DELETE /api/analysis"}

\* the request carries a session cookie that matches a stored session
\* that has not expired
HasLiveSession(request) ==
    \E s \in db.user_sessions :
        s.session_token = request.session_token /\ s.expires_at > now

\* the request carries a bearer token that decodes to an existing user
HasUserToken(request) ==
    /\ request.token # <<>>
    /\ request.token[1].key = SECRET_KEY
    /\ request.token[1].exp >= now
    /\ \E u \in db.users : u.id = request.token[1].sub

\* C20: every protected endpoint answers 401 and writes nothing to the
\* database when the request carries neither a session cookie that matches
\* an unexpired stored session nor a bearer token that decodes to an
\* existing user.
C20_Unauthenticated401 ==
    [][(out = Idle /\ out'.op \in ProtectedRoutes
        /\ ~HasLiveSession(out'.request) /\ ~HasUserToken(out'.request))
       => (out'.response.status = 401 /\ db' = db)]_vars

\* a request with the cookie of an expired session and an expired token of
\* its user has been answered 401 by an endpoint that writes
C20_Witness ==
    /\ out.op \in {"POST /api/auth/logout", "POST /api/upload"}
    /\ out.response.status = 401
    /\ \E s \in db.user_sessions :
           /\ s.session_token = out.request.session_token
           /\ s.expires_at <= now
           /\ out.request.token # <<>>
           /\ out.request.token[1].sub = s.user_id
           /\ out.request.token[1].key = SECRET_KEY

-----------------------------------------------------------------------------
(* Detection from the content: files without an extension that hold text   *)
(* of each kind the checks of detect_file_format tell apart, and files     *)
(* whose bytes are not UTF-8.                                              *)

\* a file of the bytes whose text json.loads accepts as the value `data`
JsonValueFile(b, data) == [bytes |-> b, json |-> JsonData(data), xml |-> NoXml]

\* texts that are JSON values: an object, an object that holds '<', an
\* array with more than five commas, a number followed by a newline, a
\* number, a string with more than five commas
JsonValueFiles ==
    {JsonValueFile(<<123, 34, 97, 34, 58, 32, 49, 125>>, [a |-> 1]),
     JsonValueFile(<<123, 34, 97, 34, 58, 34, 60, 34, 125>>, [a |-> <<60>>]),
     JsonValueFile(<<91, 49, 44, 50, 44, 51, 44, 52, 44, 53, 44, 54, 44, 55, 93>>, [items |-> <<1, 2, 3, 4, 5, 6, 7>>]),
     JsonValueFile(<<52, 50, 10>>, [number |-> 42]),
     JsonValueFile(<<52, 50>>, [number |-> 42]),
     JsonValueFile(<<34, 97, 44, 98, 44, 99, 44, 100, 44, 101, 44, 102, 44, 103, 34>>, [string |-> <<97, 44, 98, 44, 99, 44, 100, 44, 101, 44, 102, 44, 103>>])}

\* a text of 120 characters of rows '1,2' that ends in '<'
LateMarkup == Concat([i \in 1..30 |-> <<49, 44, 50, 10>>]) \o <<60>>

\* texts that are not JSON: markup without declaration, markup after the
\* first 100 characters, a cut-off object, each delimiter six times, a
\* delimiter five times, digits and newlines, letters
PlainTextFiles ==
    {BytesFile(<<97, 60, 98, 10>>),
     BytesFile(LateMarkup),
     BytesFile(<<123, 34, 97, 34, 58, 32, 49, 44>>),
     BytesFile(<<97, 44, 98, 44, 99, 44, 100, 44, 101, 44, 102, 44, 103>>),
     BytesFile(<<97, 59, 98, 59, 99, 59, 100, 59, 101, 59, 102, 59, 103>>),
     BytesFile(<<97, 9, 98, 9, 99, 9, 100, 9, 101, 9, 102, 9, 103>>),
     BytesFile(<<97, 124, 98, 124, 99, 124, 100, 124, 101, 124, 102, 124, 103>>),
     BytesFile(<<97, 44, 98, 44, 99, 44, 100, 44, 101, 44, 102>>),
     BytesFile(<<49, 10, 50, 10>>),
     BytesFile(<<97, 98, 99>>)}

\* bytes that are not UTF-8 (they hold 0xff): alone, and before '<', before
\* '1' and a newline, before six commas
NonTextFiles ==
    {BytesFile(<<255, 254, 0, 1>>),
     BytesFile(<<255, 60, 0>>),
     BytesFile(<<255, 49, 10>>),
     BytesFile(<<255>> \o <<97, 44, 98, 44, 99, 44, 100, 44, 101, 44, 102, 44, 103>>)}

DetectFiles == JsonValueFiles \cup PlainTextFiles \cup NonTextFiles \cup {SmallXml, SmallCsv}

\* 'data', 'f' and 't.csv'
DetectPaths == {PathData, <<102>>, PathCsv}

NextDetect ==
    \/ \E path \in DetectPaths, file \in DetectFiles : PutFile(path, file)
    \/ \E path \in DetectPaths : RemoveFile(path)
    \/ \E path \in DetectPaths : DetectFile(path)
    \/ Return

SpecDetect == Init /\ [][NextDetect]_vars

\* the first 1024 bytes of the file of the finished call
HeaderOf(path) == Rd(fs[path].bytes, 0, 1024)

\* detect_file_format has answered for an existing file whose name has no
\* known extension and whose first 1024 bytes hold no vendor signature
DetectedByText ==
    /\ out.op = "detect_file_format"
    /\ out.path \in DOMAIN fs
    /\ Lower(Suffix(out.path)) \notin DOMAIN extension_map
    /\ \A k \in 1..Len(binary_signatures) :
          ~Contains(HeaderOf(out.path), binary_signatures[k].signature)

\* ... and these bytes are UTF-8 text
DetectedText == DetectedByText /\ Utf8Decode(HeaderOf(out.path)).ok

\* the conditions of the four checks on a text
LooksXml(text) ==
    StartsWith(Strip(text), <<60, 63, 120, 109, 108>>) \/ \E i \in 1..Min(100, Len(text)) : text[i] = 60

ManyDelimiters(text) ==
    \E c \in {44, 59, 9, 124} : Cardinality({i \in 1..Len(text) : text[i] = c}) > 5

DigitAndNewline(text) ==
    /\ \E i \in 1..Len(text) : IsDigitChar(text[i])
    /\ \E i \in 1..Len(text) : text[i] = 10

\* the text (of at most 512 characters) is a JSON value
ParsesAsJson(file) == file.json.ok /\ Len(file.bytes) <= 512

\* the text starts, after white space, with '{' or '['
Bracketed(text) == StartsWith(Strip(text), <<123>>) \/ StartsWith(Strip(text), <<91>>)

\* the tag of the first check of the order xml, json, csv by delimiter, csv
\* by digit and newline that holds; isJson is the condition of the second
FirstMatch(text, isJson) ==
    IF LooksXml(text) THEN "xml"
    ELSE IF isJson THEN "json"
    ELSE IF ManyDelimiters(text) THEN "csv"
    ELSE IF DigitAndNewline(text) THEN "csv"
    ELSE "binary"

C22_NonTextIsBinary ==
    (DetectedByText /\ ~Utf8Decode(HeaderOf(out.path)).ok)
        => out.result.format = "binary"

-----------------------------------------------------------------------------
(* String slots of the binary codecs, under SpecCodec.                     *)

\* the record with the strings that go to fixed slots emptied
WithoutSlotStrings(cd) ==
    [cd EXCEPT !.asset_metadata.asset_id = <<>>,
               !.measurement = [connection |-> <<>>] @@ cd.measurement]

\* the string fields read_file is to return for the file the vendor's
\* encoder wrote: the longest prefix of whole characters that the slot holds
SlotStringsReadBack(vendor, cd, rec) ==
    /\ vendor \in {"omicron", "doble"}
          => rec.asset_metadata.asset_id = TruncatedTo(cd.asset_metadata.asset_id, 32)
    /\ vendor = "megger"
          => rec.asset_metadata.asset_id = TruncatedTo(cd.asset_metadata.asset_id, 31)
    /\ vendor = "newtons4th"
          => rec.measurement.connection
                = TruncatedTo(Get(cd.measurement, "connection", DefaultConnection), 8)

\* C23: for every string field and every input string, also one longer than
\* the slot or with a multi-byte character across the end of the slot, the
\* encoder writes the slot at its width without raising (the file is as
\* long as with the string empty), and the decoder returns the stored
\* prefix without padding and does not raise
C23_SlotStrings ==
    /\ (out.op = "write_file" /\ out.vendor # "omicron") => out.raised = ""
    /\ (out.op = "write_file" /\ out.vendor # "newtons4th")
          => Len(fs[out.path].bytes)
                = Len(write_file(WithoutSlotStrings(arg.cd), out.vendor).bytes)
    /\ \A k \in 1..Len(Vendors) :
          ReadBack(Vendors[k])
              => /\ out.result.status = "ok"
                 /\ SlotStringsReadBack(Vendors[k], arg.cd, out.result.rec)

-----------------------------------------------------------------------------
(* Specification SpecResample: resample_to_common_grid called on arrays,   *)
(* with a cubic interpolator that can be built or that raises.             *)

\* FRANormalizer(target_points).resample_to_common_grid(frequencies,
\* magnitudes, phases)
ResampleToCommonGrid(a, target_points, cubic) ==
    /\ out = Idle
    /\ out' = [op |-> "resample_to_common_grid", given |-> a,
               target_points |-> target_points, cubic |-> cubic,
               result |-> resample_to_common_grid(a, target_points, cubic)]
    /\ UNCHANGED <<fs, arg, db, now, pending>>

\* arrays over a part of the target range, with each kind of values
NarrowDocs ==
    {NormDoc(n, "narrow", mags, phases, "dB") :
        n \in {10, 11}, mags \in {"db", "steep"}, phases \in {"none", "wide", "jump"}}

ResampleInputs == {ExtractArrays(NormRecord(d).measurement) : d \in NormDocs \cup NarrowDocs}

NextResample ==
    \/ \E a \in ResampleInputs, tp \in TargetPointChoices, cubic \in BOOLEAN :
          ResampleToCommonGrid(a, tp, cubic)
    \/ Return

SpecResample == Init /\ [][NextResample]_vars

\* the call took the except branch
FellBack ==
    /\ out.op = "resample_to_common_grid"
    /\ out.result.status = "ok"
    /\ out.result.interpolation = "linear"

\* the arrays the interpolators of the call were built on
RemainingArrays == ClippedArrays(UniqueArrays(SortedArrays(out.given)))

\* the positions of the grid below the lowest or above the highest
\* remaining input frequency
OutsideInput ==
    {k \in 1..out.target_points :
        \/ out.result.frequencies[k] < RemainingArrays.f[1]
        \/ out.result.frequencies[k] > RemainingArrays.f[Len(RemainingArrays.f)]}

\* the value at x on the first or the last segment of the input, continued
\* beyond the input
Continued(xs, ys, x) ==
    IF x < xs[1] THEN OnLine(xs[1], ys[1], xs[2], ys[2], x)
    ELSE OnLine(xs[Len(xs) - 1], ys[Len(xs) - 1], xs[Len(xs)], ys[Len(xs)], x)

\* C25: when the cubic interpolation fails, the linear fallback does not
\* extrapolate: a grid frequency below the lowest or above the highest
\* remaining input frequency gets no magnitude and no phase continued from
\* the outermost segment of the input
C25_FallbackNoExtrapolation ==
    FellBack =>
        \A k \in OutsideInput :
            /\ out.result.magnitudes[k]
                  # Continued(RemainingArrays.f, RemainingArrays.m, out.result.frequencies[k])
            /\ out.result.has_phases
                  => out.result.phases[k]
                        # Continued(RemainingArrays.f, RemainingArrays.p,
                                    out.result.frequencies[k])

-----------------------------------------------------------------------------
(* Errors of process_fra_data, under SpecNorm.                             *)

\* process_fra_data was called on a record the validator accepts
ProcessedValid == out.op = "process_fra_data" /\ validate_canonical_data(out.given)

\* C24: on a valid record process_fra_data raises only the insufficient-data
\* error, and raises it exactly when fewer than 10 distinct frequencies
\* remain in the target range; a cubic interpolator, a filter or a wavelet
\* transform that fails is not raised (the call returns a record); when the
\* error is raised the input record is what it was before the call
C24_OnlyInsufficientData ==
    ProcessedValid =>
        /\ out.result.status = "error"
              <=> Cardinality(KeptFrequencies(out.given.measurement)) < 10
        /\ out.result.status = "error"
              => /\ out.result.err = "ValueError"
                 /\ out.result.msg = "Insufficient frequency points after filtering"
                 /\ out.result.canonical_data = out.given

\* a valid record was processed on a host where the cubic interpolator
\* raises, the filter raises on its window and PyWavelets is missing, and
\* a record came back
C24_Witness ==
    /\ ProcessedValid
    /\ Processed
    /\ out.result.interpolation = "linear"
    /\ out.apply_filtering /\ ~out.result.savgol_ran
    /\ out.apply_wavelet /\ ~out.result.wavelet_ran

\* a valid record with all frequencies below the range was refused
C24_Refused ==
    /\ ProcessedValid
    /\ out.result.status = "error"
    /\ Len(out.given.measurement.frequencies) >= 10

-----------------------------------------------------------------------------
(* Specification SpecRace: register_user, google_auth and                  *)
(* process_emergent_session served concurrently.  A coroutine gives way at *)
(* each await on the database, so every database call is a step of its     *)
(* own; pending holds the requests that have been started and not yet      *)
(* answered, each with the local variables of its handler.                 *)

\* the requests the server handles at one time, and the sessions the OAuth
\* handlers are let to create
MaxRequests == 2
MaxOAuthSessions == 2

RequestSlots == 1..MaxRequests

\* the user document of an account without a password
NoPasswordHash == <<>>

\* db.users.find_one({"email": email})
FindUserByEmail(database, email) == FindOne(database.users, LAMBDA u : u.email = email)

\* the request is answered: out holds the route, the email of the request
\* and the status, and the coroutine is gone
Answered(r, route, email, status_code) ==
    /\ out' = [op |-> route, request |-> [email |-> email],
               response |-> [status |-> status_code]]
    /\ pending' = [k \in DOMAIN pending \ {r} |-> pending[k]]

\* the coroutine goes on to its next await
Awaiting(r, frame) ==
    /\ pending' = [k \in DOMAIN pending \cup {r} |-> IF k = r THEN frame ELSE pending[k]]
    /\ UNCHANGED out

\* the ids uuid4 has not given out
FreshUserIds == UserIds \ {u.id : u \in db.users}

\* register_user up to the return of `await db.users.find_one`: 400 when a
\* user is found, else the handler goes on to insert_one
RegisterFindOne(r, email, password) ==
    /\ r \notin DOMAIN pending
    /\ IF FindUserByEmail(db, email) # <<>>
       THEN out = Idle /\ Answered(r, "POST /api/auth/register", email, 400)
       ELSE Awaiting(r, [route |-> "register_user", email |-> email,
                         password |-> password])
    /\ UNCHANGED <<fs, arg, db, now>>

\* register_user from `await db.users.insert_one(user_record)` to the return
RegisterInsertOne(r, user_id) ==
    /\ out = Idle
    /\ r \in DOMAIN pending
    /\ pending[r].route = "register_user"
    /\ user_id \in FreshUserIds
    /\ db' = [db EXCEPT !.users =
                 @ \cup {[id |-> user_id, email |-> pending[r].email,
                          password_hash |-> get_password_hash(pending[r].password)]}]
    /\ Answered(r, "POST /api/auth/register", pending[r].email, 200)
    /\ UNCHANGED <<fs, arg, now>>

\* the OAuth requests in flight and the sessions stored
OAuthLoad ==
    Cardinality({k \in DOMAIN pending : pending[k].route # "register_user"})
    + Cardinality(db.user_sessions)

\* google_auth and process_emergent_session up to the return of
\* `await db.users.find_one`; verified tells whether the provider accepts
\* the token or session id of the request (400 otherwise)
OAuthFindOne(r, route, email, verified) ==
    /\ OAuthLoad < MaxOAuthSessions
    /\ IF ~verified
       THEN out = Idle /\ Answered(r, route, email, 400)
       ELSE Awaiting(r, [route |-> route, email |-> email, step |-> "users",
                         user_data |-> FindUserByEmail(db, email)])
    /\ UNCHANGED <<fs, arg, db, now>>

\* ... from `await db.users.insert_one` or `await db.users.update_one` to
\* the return of it: a new user when none was found, else the login date
\* and the picture of the user found
OAuthWriteUser(r, user_id) ==
    /\ r \in DOMAIN pending
    /\ pending[r].route # "register_user"
    /\ pending[r].step = "users"
    /\ IF pending[r].user_data = <<>>
       THEN /\ user_id \in FreshUserIds
            /\ db' = [db EXCEPT !.users =
                         @ \cup {[id |-> user_id, email |-> pending[r].email,
                                  password_hash |-> NoPasswordHash]}]
            /\ Awaiting(r, [pending[r] EXCEPT !.step = "session",
                                              !.user_data = <<[id |-> user_id]>>])
       ELSE /\ user_id = pending[r].user_data[1].id
            /\ db' = db
            /\ Awaiting(r, [pending[r] EXCEPT !.step = "session"])
    /\ UNCHANGED <<fs, arg, now>>

\* ... from `await db.user_sessions.insert_one` to the return
OAuthInsertSession(r, session_token) ==
    /\ out = Idle
    /\ r \in DOMAIN pending
    /\ pending[r].route # "register_user"
    /\ pending[r].step = "session"
    /\ \A s \in db.user_sessions : s.session_token # session_token
    /\ db' = [db EXCEPT !.user_sessions =
                 @ \cup {[user_id |-> pending[r].user_data[1].id,
                          session_token |-> session_token,
                          expires_at |-> now + ACCESS_TOKEN_EXPIRE_MINUTES]}]
    /\ Answered(r, pending[r].route, pending[r].email, 200)
    /\ UNCHANGED <<fs, arg, now>>

GoogleAuth(r, email, verified) ==
    /\ r \notin DOMAIN pending
    /\ OAuthFindOne(r, "POST /api/auth/google", email, verified)

ProcessEmergentSession(r, email, verified) ==
    /\ r \notin DOMAIN pending
    /\ OAuthFindOne(r, "POST /api/auth/emergent/session", email, verified)

\* the caller takes the response
TakeResponse ==
    /\ out # Idle
    /\ out' = Idle
    /\ UNCHANGED <<fs, arg, db, now, pending>>

NextRace ==
    \/ \E r \in RequestSlots, email \in Emails : RegisterFindOne(r, email, "pw1")
    \/ \E r \in RequestSlots, user_id \in UserIds : RegisterInsertOne(r, user_id)
    \/ \E r \in RequestSlots, email \in Emails, verified \in BOOLEAN :
          GoogleAuth(r, email, verified)
    \/ \E r \in RequestSlots, email \in Emails, verified \in BOOLEAN :
          ProcessEmergentSession(r, email, verified)
    \/ \E r \in RequestSlots, user_id \in UserIds : OAuthWriteUser(r, user_id)
    \/ \E r \in RequestSlots, session_token \in SessionTokens :
          OAuthInsertSession(r, session_token)
    \/ TakeResponse

SpecRace == Init /\ [][NextRace]_vars

\* C26: under any interleaving of concurrent register_user, google_auth and
\* process_emergent_session requests the users collection never holds two
\* records with the same email, and a registration answered while a user
\* with its email exists is answered 400 and inserts nothing
C26_UniqueEmail ==
    /\ \A u \in db.users : \A v \in db.users : u.email = v.email => u = v
    /\ (out.op = "POST /api/auth/register" /\ out.response.status = 200)
          => Cardinality({u \in db.users : u.email = out.request.email}) = 1

-----------------------------------------------------------------------------
(* Password reset by one-time code: forgot_password, verify_otp and        *)
(* reset_password, and specification SpecOtp.                              *)

\* timedelta(minutes=15) of forgot_password
OTP_EXPIRE_MINUTES == 15

\* db.password_reset_otps.find_one({"email": email})
FindOtp(database, email) == FindOne(database.password_reset_otps, LAMBDA o : o.email = email)

\* update_one({"email": email}, {"$set": ...}, upsert=True)
UpsertOtp(database, email, otp, expires_at) ==
    [database EXCEPT !.password_reset_otps =
        {o \in @ : o.email # email}
        \cup {[email |-> email, otp |-> otp, expires_at |-> expires_at, verified |-> FALSE]}]

\* POST /api/auth/forgot-password; otp is the code secrets.randbelow draws.
\* Accounts created by an OAuth handler have no password and get no code.
forgot_password(database, clock, email, otp) ==
    IF FindUserByEmail(database, email) = <<>> THEN Responds(200, database)
    ELSE IF FindUserByEmail(database, email)[1].password_hash = NoPasswordHash
         THEN Responds(200, database)
    ELSE Responds(200, UpsertOtp(database, email, otp, clock + OTP_EXPIRE_MINUTES))

\* otp_record["expires_at"] < datetime.now(timezone.utc): the driver hands
\* back the stored time with its zone when the client is tz_aware, else
\* without, and comparing a time without zone to one with zone is a
\* TypeError
OtpExpired(expires_at, clock, tz_aware) ==
    IF ~tz_aware THEN Raise("TypeError", "can't compare offset-naive and offset-aware datetimes")
    ELSE [status |-> "ok", expired |-> expires_at < clock]

\* POST /api/auth/verify-otp once the record is found
VerifyFound(database, clock, email, otp, otp_record, expired) ==
    IF expired.status = "error" THEN Responds(500, database)
    ELSE IF expired.expired THEN Responds(400, database)
    ELSE IF otp_record.otp # otp THEN Responds(400, database)
    ELSE Responds(200, [database EXCEPT !.password_reset_otps =
                           {IF o.email = email THEN [o EXCEPT !.verified = TRUE] ELSE o :
                               o \in @}])

\* POST /api/auth/verify-otp
verify_otp(database, clock, email, otp, tz_aware) ==
    IF FindOtp(database, email) = <<>> THEN Responds(400, database)
    ELSE VerifyFound(database, clock, email, otp, FindOtp(database, email)[1],
                     OtpExpired(FindOtp(database, email)[1].expires_at, clock, tz_aware))

\* reset_password once the code is accepted: the password of the user is
\* set and the record of the code deleted
ResetAccepted(database, email, new_password) ==
    IF FindUserByEmail(database, email) = <<>> THEN Responds(404, database)
    ELSE Responds(200,
                  [database EXCEPT
                      !.users = {IF u = FindUserByEmail(database, email)[1]
                                 THEN [u EXCEPT !.password_hash = get_password_hash(new_password)]
                                 ELSE u : u \in @},
                      !.password_reset_otps = {o \in @ : o.email # email}])

\* reset_password once the record is found and is verified
ResetVerified(database, email, otp, new_password, otp_record, expired) ==
    IF expired.status = "error" THEN Responds(500, database)
    ELSE IF expired.expired THEN Responds(400, database)
    ELSE IF otp_record.otp # otp THEN Responds(400, database)
    ELSE ResetAccepted(database, email, new_password)

\* reset_password that does not look at the verified flag
reset_password_unverified(database, clock, email, otp, new_password, tz_aware) ==
    IF FindOtp(database, email) = <<>> THEN Responds(400, database)
    ELSE ResetVerified(database, email, otp, new_password, FindOtp(database, email)[1],
                       OtpExpired(FindOtp(database, email)[1].expires_at, clock, tz_aware))

\* POST /api/auth/reset-password
reset_password(database, clock, email, otp, new_password, tz_aware) ==
    IF FindOtp(database, email) = <<>> THEN Responds(400, database)
    ELSE IF ~FindOtp(database, email)[1].verified THEN Responds(400, database)
    ELSE ResetVerified(database, email, otp, new_password, FindOtp(database, email)[1],
                       OtpExpired(FindOtp(database, email)[1].expires_at, clock, tz_aware))

ForgotPassword(email, otp) ==
    /\ out = Idle
    /\ Served("POST /api/auth/forgot-password", [email |-> email, otp |-> otp],
              forgot_password(db, now, email, otp))

VerifyOtp(email, otp, tz_aware) ==
    /\ out = Idle
    /\ Served("POST /api/auth/verify-otp", [email |-> email, otp |-> otp],
              verify_otp(db, now, email, otp, tz_aware))

ResetPassword(email, otp, new_password, tz_aware) ==
    /\ out = Idle
    /\ Served("POST /api/auth/reset-password", [email |-> email, otp |-> otp],
              reset_password(db, now, email, otp, new_password, tz_aware))

\* the codes drawn, and the emails of the requests: of the account and of
\* nobody
Otps == {"111111", "222222"}
OtpEmails == Emails \cup {"b@fra"}

NextOtp ==
    \/ \E email \in Emails, user_id \in UserIds : RegisterUser(email, "pw1", user_id)
    \/ \E email \in OtpEmails, otp \in Otps : ForgotPassword(email, otp)
    \/ \E email \in OtpEmails, otp \in Otps, tz_aware \in BOOLEAN :
          VerifyOtp(email, otp, tz_aware)
    \/ \E email \in OtpEmails, otp \in Otps, tz_aware \in BOOLEAN :
          ResetPassword(email, otp, "pw2", tz_aware)
    \/ Tick
    \/ Return

SpecOtp == Init /\ [][NextOtp]_vars

\* the step is the answer `status_code` of the route
Answers(route, status_code) ==
    out = Idle /\ out'.op = route /\ out'.response.status = status_code

\* the records of codes of the email before the step
OtpBefore == {o \in db.password_reset_otps : o.email = out'.request.email}

\* what a step may do to passwords and to the records of codes
C27_Step ==
    /\ (\E u \in db.users : u \notin db'.users)
         => Answers("POST /api/auth/reset-password", 200)
    /\ Answers("POST /api/auth/reset-password", 200)
         => /\ \E o \in OtpBefore :
                  o.verified /\ o.expires_at >= now /\ o.otp = out'.request.otp
            /\ \A o \in db'.password_reset_otps : o.email # out'.request.email
    /\ \A o \in db'.password_reset_otps \ db.password_reset_otps :
          IF o.verified
          THEN /\ Answers("POST /api/auth/verify-otp", 200)
               /\ o.otp = out'.request.otp
               /\ o.expires_at >= now
               /\ [o EXCEPT !.verified = FALSE] \in db.password_reset_otps
          ELSE /\ Answers("POST /api/auth/forgot-password", 200)
               /\ o.otp = out'.request.otp
               /\ o.expires_at = now + OTP_EXPIRE_MINUTES
               /\ \A p \in db'.password_reset_otps : p.email = o.email => p = o

-----------------------------------------------------------------------------
(* Specification SpecOwner: two users upload, analyse, read and delete,    *)
(* each under a bearer token of their own, with the ids of both.           *)

OwnerEmails == [u1 |-> "a@fra", u2 |-> "b@fra"]

OwnerUploadIds == {"up1", "up2"}
OwnerAnalysisIds == {"an1", "an2"}

\* a request without credentials, and one with the bearer token of each user
OwnerRequests ==
    {[session_token |-> None, token |-> <<>>]}
    \cup {[session_token |-> None,
           token |-> <<create_access_token(user_id, 0, ACCESS_TOKEN_EXPIRE_MINUTES)>>] :
            user_id \in UserIds}

\* the asset id of the file the users upload, as upload_fra_file stores it
UploadedAssetId ==
    parse_file([p \in {TempPath(PathCsv)} |-> CsvFiles[ScenarioDoc]],
               TempPath(PathCsv)).rec.asset_metadata.asset_id

\* the asset ids asked for: that of the uploads, and 'X' of no upload
OwnerAssetIds == {UploadedAssetId, <<88>>}

NextOwner ==
    \/ \E user_id \in UserIds : RegisterUser(OwnerEmails[user_id], "pw1", user_id)
    \/ \E request \in OwnerRequests, upload_id \in OwnerUploadIds :
          Upload(request, upload_id, PathCsv, CsvFiles[ScenarioDoc])
    \/ \E request \in OwnerRequests, upload_id \in OwnerUploadIds,
          analysis_id \in OwnerAnalysisIds, analysed \in BOOLEAN :
          Analyze(request, upload_id, analysis_id, analysed)
    \/ \E request \in OwnerRequests, analysis_id \in OwnerAnalysisIds :
          GetAnalysis(request, analysis_id)
    \/ \E request \in OwnerRequests, asset_id \in OwnerAssetIds :
          GetAssetHistory(request, asset_id)
    \/ \E request \in OwnerRequests : ListAssets(request)
    \/ \E request \in OwnerRequests, analysis_id \in OwnerAnalysisIds :
          DeleteAnalysis(request, analysis_id)
    \/ Return

SpecOwner == Init /\ [][NextOwner]_vars

OwnerRoutes ==
    {"POST /api/analyze", "GET /api/analysis", "GET /api/asset/history", "GET /api/assets",
     "DELETE /api/analysis"}

\* the user get_current_user finds for the request of the step
Caller == get_current_user(db, now, out'.request.token, out'.request.session_token)

\* the documents the response of the step was built from
BodyOf(response) == IF "body" \in DOMAIN response THEN response.body ELSE {}

\* the request of the step names an upload or an analysis that is not one
\* of the caller's
NamesForeign ==
    \/ /\ out'.op = "POST /api/analyze"
       /\ ~\E u \in db.fra_uploads :
              u.upload_id = out'.request.upload_id /\ u.user_id = Caller
    \/ /\ out'.op \in {"GET /api/analysis", "DELETE /api/analysis"}
       /\ ~\E a \in db.fra_analyses :
              a.analysis_id = out'.request.analysis_id /\ a.user_id = Caller

\* what a step of one of the five routes, made for a user, may do
C28_Step ==
    (out = Idle /\ out'.op \in OwnerRoutes /\ Caller # None) =>
        /\ \A a \in BodyOf(out'.response) : a.user_id = Caller
        /\ db'.fra_uploads = db.fra_uploads
        /\ \A a \in (db.fra_analyses \ db'.fra_analyses)
                        \cup (db'.fra_analyses \ db.fra_analyses) : a.user_id = Caller
        /\ \A a \in db'.fra_analyses \ db.fra_analyses :
              \E u \in db.fra_uploads : u.upload_id = a.upload_id /\ u.user_id = Caller
        /\ NamesForeign => (out'.response.status = 404 /\ db' = db)

\* C28: analyze_fra, get_analysis_result, get_asset_history,
\* list_user_assets and delete_analysis return and remove only records whose
\* user_id is the caller's, and a request that names an upload or an
\* analysis of another user is answered 404 and changes nothing
C28_OwnRecordsOnly == [][C28_Step]_vars

\* a user asked to delete, or to read, the analysis of the other user and
\* got 404, and the analysis is still there
C28_Witness ==
    /\ out.op \in {"GET /api/analysis", "DELETE /api/analysis"}
    /\ out.response.status = 404
    /\ out.request.token # <<>>
    /\ \E u \in db.users : u.id = out.request.token[1].sub
    /\ \E a \in db.fra_analyses :
          /\ a.analysis_id = out.request.analysis_id
          /\ a.user_id # out.request.token[1].sub

-----------------------------------------------------------------------------
(* Specification SpecLogout: two users log in, more than once, and log out,*)
(* time passes, and requests carry any cookie, with or without a token.    *)

\* a session cookie or none, and no bearer token or the one of user u1
LogoutRequests ==
    {[session_token |-> session_token, token |-> token] :
        session_token \in SessionTokens \cup {None},
        token \in {<<>>, <<create_access_token("u1", 0, ACCESS_TOKEN_EXPIRE_MINUTES)>>}}

NextLogout ==
    \/ \E user_id \in UserIds : RegisterUser(OwnerEmails[user_id], "pw1", user_id)
    \/ \E user_id \in UserIds, password \in Passwords, session_token \in SessionTokens :
          LoginUser(OwnerEmails[user_id], password, session_token)
    \/ \E request \in LogoutRequests : GetMe(request)
    \/ \E request \in LogoutRequests : Logout(request)
    \/ Tick
    \/ Return

SpecLogout == Init /\ [][NextLogout]_vars

\* what a step may do to the sessions, and which cookies authenticate
\* after it
C29_Step ==
    /\ (out = Idle /\ out'.op = "POST /api/auth/logout" /\ out'.response.status = 200)
          => \A s \in db'.user_sessions : s.user_id # Caller
    /\ \A s \in db'.user_sessions \ db.user_sessions :
          out = Idle /\ out'.op = "POST /api/auth/login" /\ out'.response.status = 200
    /\ \A session_token \in SessionTokens :
          SessionUser(db', now', session_token) # None
              => \E s \in db'.user_sessions :
                    /\ s.session_token = session_token
                    /\ s.user_id = SessionUser(db', now', session_token)
                    /\ s.expires_at > now'

\* C29: after logout_user succeeds no session record of that user remains;
\* sessions are created only by a login; and a cookie authenticates only
\* through a stored session with its token that has not expired.  So every
\* cookie issued before a logout is rejected from the logout on, until the
\* user logs in again, and an expired session never authenticates.
C29_LogoutEndsSessions == [][C29_Step]_vars

\* a request with a session cookie and no token has logged its user out,
\* and no session of any user holds that cookie's token now
C29_Witness ==
    /\ out.op = "POST /api/auth/logout"
    /\ out.response.status = 200
    /\ out.request.session_token # None
    /\ out.request.token = <<>>
    /\ \A s \in db.user_sessions : s.session_token # out.request.session_token
    /\ SessionUser(db, now, out.request.session_token) = None

-----------------------------------------------------------------------------
(* The header row of a CSV file, under SpecText.                           *)

\* the text of a file CSVParser.parse_file returned a record for
TextOfFile(file) == ReadText(file.bytes).text

\* the rows of the file from its first line that is neither a comment nor
\* blank
RowsOfFile(file) ==
    RowsFrom(ReadLines(TextOfFile(file)), DataStart(ReadLines(TextOfFile(file))),
             detect_delimiter(TextOfFile(file)))

\* the field of the row in the 0-based column is there and parses as a float
FieldParses(row, column) == column < Len(row) /\ ParseFloat(row[column + 1]).ok

\* the frequency and the magnitude of the row parse
FreqMagValid(row, columns) ==
    /\ Len(row) > Max(Max(columns.frequency, columns.magnitude), columns.phase)
    /\ FieldParses(row, columns.frequency)
    /\ FieldParses(row, columns.magnitude)

\* every identified column of the row parses
NumericallyValid(row, columns) ==
    /\ FreqMagValid(row, columns)
    /\ columns.phase # -1 => FieldParses(row, columns.phase)

\* the number of rows after the first that satisfy Valid, the columns
\* being those identified from the first row
RowsAfterFirst(rows, Valid(_, _)) ==
    Cardinality({k \in 2..Len(rows) : Valid(rows[k], identify_columns(rows[1]))})

\* C30 (as claimed): the first non-comment, non-blank line of a CSV file is
\* consumed as the header row and adds no data point, also when its columns
\* are taken by position, and the point count of the record is the number
\* of numerically valid rows after that line.
C30_PointCount ==
    Returned({"csv_parser.parse_file"})
    => /\ out.result.rec.measurement.resolution
              = Len(out.result.rec.measurement.frequencies)
       /\ Len(out.result.rec.measurement.frequencies)
              = RowsAfterFirst(RowsOfFile(fs[out.path]), NumericallyValid)

\* what holds instead: the points are the rows after the first line whose
\* frequency and magnitude parse, whatever their phase
C30_HeaderConsumed ==
    Returned({"csv_parser.parse_file"})
    => Len(out.result.rec.measurement.frequencies)
          = RowsAfterFirst(RowsOfFile(fs[out.path]), FreqMagValid)

\* a file whose first line is a data row gave a record without that row
C30_FirstRowLost ==
    /\ Returned({"csv_parser.parse_file"})
    /\ fs[out.path] = HeaderlessFiles[HeaderlessDoc("row", 10)]
    /\ Len(out.result.rec.measurement.frequencies) = 10
    /\ out.result.rec.measurement.frequencies[1] = 100

\* a file of ten data rows and no header row is refused
C30_TenRowsRefused ==
    /\ CalledOnFile({"csv_parser.parse_file"}, HeaderlessFiles[HeaderlessDoc("row", 9)])
    /\ out.result.status = "error"
    /\ out.result.msg = "Insufficient valid data points (minimum 10 required)"

====
